---- MODULE Spec2Model ----
(***************************************************************************)
(* A model of the rule-tree synchronisation and activation engine of       *)
(* akamai-edge-grid-property (src/src/index.js, class EdgeGridProperty).   *)
(*                                                                         *)
(* Part 1: the rule-tree model and mergeAdvancedUUIDRules.                 *)
(* Part 2: the cached record, the remote service and update().             *)
(* Part 3: activate() and the submission loop of _activateProperty.        *)
(***************************************************************************)
EXTENDS Integers, Sequences, FiniteSets, TLC

VARIABLES
    oldRules,   \* the tree passed as oldRules (never written by the merge)
    newRules,   \* the tree passed as newRules, as the call leaves it
    given,      \* newRules as it was passed in
    merged,     \* outcome of the call of mergeAdvancedUUIDRules
    cache,      \* _initComplete, _propertyById, _propertyByName
    property,   \* the property object: latestVersion, stagingVersion, productionVersion
    remote,     \* the service: the versions of the property and their rule trees
    pc,         \* position of the running call
    call,       \* arguments and locals of the running call
    requests,   \* requests sent by the running call, each with its response
    result,     \* how the last call settled
    calls       \* calls started so far

mergeVars == <<oldRules, newRules, given, merged>>

serviceVars == <<cache, property, remote, pc, call, requests, result, calls>>

vars == <<oldRules, newRules, given, merged,
          cache, property, remote, pc, call, requests, result, calls>>

(***************************************************************************)
(* Bounds of the rule trees drawn as inputs.                               *)
(***************************************************************************)
MaxDepth == 1   \* longest chain of non-root rules above a directive
MaxDirs == 2    \* directives (behaviors and criteria) per tree

(***************************************************************************)
(* JavaScript values.  A string is a sequence of characters, so that       *)
(* concatenation is \o.  Absent is the value undefined of a missing        *)
(* option; it is no string.                                                *)
(***************************************************************************)
Absent == <<"#undefined">>

Falsy(v) == v = Absent \/ v = <<>>

\* '' + v
ToStr(v) == IF v = Absent THEN <<"u", "n", "d", "e", "f", "i", "n", "e", "d">> ELSE v

\* a || b
Or(a, b) == IF Falsy(a) THEN b ELSE a

\* the digest: equal exactly on equal strings
md5(s) == <<"md5", s>>

NoUuid == <<"undefined">>
DefaultUuid == <<"default">>

(***************************************************************************)
(* Rule trees.  A tree is a function from the paths of its rules (the root *)
(* is <<>>, the k-th child of p is Append(p, k)) to rule records; a path   *)
(* plays the part of the object reference of the rule.                     *)
(***************************************************************************)
AdvancedNames == {"advanced", "matchAdvanced"}

NoOptions == [xml |-> Absent, openXml |-> Absent, closeXml |-> Absent]

AdvancedA ==
    [name |-> "advanced", list |-> "behaviors",
     options |-> [xml |-> <<"a">>, openXml |-> Absent, closeXml |-> Absent]]
AdvancedB ==
    [name |-> "advanced", list |-> "behaviors",
     options |-> [xml |-> <<"b">>, openXml |-> Absent, closeXml |-> Absent]]
MatchAdvancedAC ==
    [name |-> "matchAdvanced", list |-> "criteria",
     options |-> [xml |-> Absent, openXml |-> <<"a">>, closeXml |-> <<"c">>]]
Caching == [name |-> "caching", list |-> "behaviors", options |-> NoOptions]

DirKinds == {AdvancedA, AdvancedB, MatchAdvancedAC, Caching}

RootStyles == {DefaultUuid, NoUuid}

Branches == 1..MaxDirs

RECURSIVE PathsUpTo(_)
PathsUpTo(d) ==
    IF d = 0 THEN {<<>>}
    ELSE LET shorter == PathsUpTo(d - 1)
         IN  shorter \cup {Append(p, k) : p \in {q \in shorter : Len(q) = d - 1}, k \in Branches}

Paths == PathsUpTo(MaxDepth)

IsPrefix(p, q) == Len(p) <= Len(q) /\ SubSeq(q, 1, Len(p)) = p

\* p comes no later than q in a depth-first walk
RECURSIVE LexLeq(_, _)
LexLeq(p, q) ==
    IF p = <<>> THEN TRUE
    ELSE IF q = <<>> THEN FALSE
    ELSE IF Head(p) # Head(q) THEN Head(p) < Head(q)
    ELSE LexLeq(Tail(p), Tail(q))

Placements == [path : Paths, kind : DirKinds]

RulePaths(ps) == {p \in Paths : \E i \in DOMAIN ps : IsPrefix(p, ps[i].path)}

\* one description per tree: directives listed in walk order, children numbered
\* without gaps
Canonical(ps) ==
    /\ \A i \in DOMAIN ps : \A j \in DOMAIN ps : i < j => LexLeq(ps[i].path, ps[j].path)
    /\ \A p \in RulePaths(ps) :
          (p # <<>> /\ p[Len(p)] > 1) =>
              [p EXCEPT ![Len(p)] = p[Len(p)] - 1] \in RulePaths(ps)

PlacementSeqs ==
    {ps \in UNION {[1..k -> Placements] : k \in 0..MaxDirs} : Canonical(ps)}

RuleUuid(side, style, p) == IF p = <<>> THEN style ELSE <<side, "rule", p>>

DirsOf(side, ps, p, list) ==
    LET idx == SelectSeq([i \in DOMAIN ps |-> i],
                         LAMBDA i : ps[i].path = p /\ ps[i].kind.list = list)
    IN  [n \in DOMAIN idx |->
            [name |-> ps[idx[n]].kind.name,
             uuid |-> <<side, "directive", idx[n]>>,
             options |-> ps[idx[n]].kind.options]]

ChildrenOf(dom, p) ==
    LET ks == {k \in Branches : Append(p, k) \in dom}
    IN  [n \in 1..Cardinality(ks) |-> Append(p, n)]

BuildTree(side, style, ps) ==
    LET dom == RulePaths(ps) \cup {<<>>}
    IN  [p \in dom |->
            [name |-> IF p = <<>> THEN "default" ELSE "rule",
             uuid |-> RuleUuid(side, style, p),
             children |-> ChildrenOf(dom, p),
             behaviors |-> DirsOf(side, ps, p, "behaviors"),
             criteria |-> DirsOf(side, ps, p, "criteria")]]

Trees(side) == {BuildTree(side, style, ps) : style \in RootStyles, ps \in PlacementSeqs}

OldTrees == Trees("old")
NewTrees == Trees("new")

(***************************************************************************)
(* mergeAdvancedUUIDRules.search: walks a tree and collects its advanced   *)
(* and matchAdvanced directives.  The dictionary found (digest -> list) is *)
(* kept as the sequence of its entries in the order they were pushed; the  *)
(* keys of the dictionary in insertion order and the list of a key are     *)
(* read off that sequence.                                                 *)
(***************************************************************************)
Ref(p, list, i) == [rule |-> p, list |-> list, i |-> i]

Deref(tree, ref) ==
    IF ref.list = "behaviors" THEN tree[ref.rule].behaviors[ref.i]
    ELSE tree[ref.rule].criteria[ref.i]

\* ruleNode.behaviors.concat(ruleNode.criteria)
NodeList(tree, p) ==
    [i \in DOMAIN tree[p].behaviors |-> Ref(p, "behaviors", i)]
        \o [i \in DOMAIN tree[p].criteria |-> Ref(p, "criteria", i)]

IsAdvancedOrAnyName(advNode) == TRUE

IsAdvanced(advNode) == advNode.name = "advanced" \/ advNode.name = "matchAdvanced"

\* advNode.options.xml || '' + advNode.options.openXml || '' + advNode.options.closeXml || ''
\* where + binds tighter than ||
PayloadOf(options) ==
    Or(Or(Or(options.xml, ToStr(options.openXml)), ToStr(options.closeXml)), <<>>)

\* ruleNode.uuid !== 'default' ? parentRules.concat([ruleNode]) : parentRules
NewParentRules(tree, p, parentRules) ==
    IF tree[p].uuid # DefaultUuid THEN Append(parentRules, p) ELSE parentRules

FoundNode(tree, ref, parentRules) ==
    LET advNode == Deref(tree, ref)
        xml == PayloadOf(advNode.options)
    IN  [uuid |-> advNode.uuid,
         xml |-> xml,
         advNode |-> ref,
         parentRules |-> NewParentRules(tree, ref.rule, parentRules),
         md5 |-> md5(xml)]

RECURSIVE search(_, _, _)
RECURSIVE searchChildren(_, _, _)
search(tree, p, parentRules) ==
    LET advanced == SelectSeq(NodeList(tree, p), LAMBDA ref : IsAdvanced(Deref(tree, ref)))
        here == [i \in DOMAIN advanced |-> FoundNode(tree, advanced[i], parentRules)]
    IN  here \o searchChildren(tree, tree[p].children, NewParentRules(tree, p, parentRules))

searchChildren(tree, kids, parentRules) ==
    IF kids = <<>> THEN <<>>
    ELSE search(tree, Head(kids), parentRules) \o searchChildren(tree, Tail(kids), parentRules)

\* Object.keys(found): the digests in the order of their first entry
RECURSIVE Keys(_)
Keys(found) ==
    IF found = <<>> THEN <<>>
    ELSE LET before == Keys(SubSeq(found, 1, Len(found) - 1))
             key == found[Len(found)].md5
         IN  IF \E i \in DOMAIN before : before[i] = key THEN before ELSE Append(before, key)

\* found[key] || []
ListOf(found, key) == SelectSeq(found, LAMBDA x : x.md5 = key)

\* the entries of found as the two nested forEach visit them
RECURSIVE VisitKeys(_, _)
VisitKeys(found, keys) ==
    IF keys = <<>> THEN <<>>
    ELSE ListOf(found, Head(keys)) \o VisitKeys(found, Tail(keys))

VisitOrder(found) == VisitKeys(found, Keys(found))

(***************************************************************************)
(* The body of the two nested loops for one newAdvObject.                  *)
(***************************************************************************)
\* oldAdvObjectList.find(x => newAdvObject.parentRules.length === x.parentRules.length)
FindOld(oldFound, newAdvObject) ==
    SelectSeq(ListOf(oldFound, newAdvObject.md5),
              LAMBDA x : Len(newAdvObject.parentRules) = Len(x.parentRules))

FreshChainUuid(old, oldAdvObject, i) == <<"fresh", "rule", i>>

\* oldAdvObject.parentRules[i].uuid
ChainUuid(old, oldAdvObject, i) == old[oldAdvObject.parentRules[i]].uuid

RECURSIVE CopyChain(_, _, _, _, _)
CopyChain(tree, old, newAdvObject, oldAdvObject, i) ==
    IF i > Len(newAdvObject.parentRules) THEN tree
    ELSE CopyChain([tree EXCEPT ![newAdvObject.parentRules[i]].uuid =
                                    ChainUuid(old, oldAdvObject, i)],
                   old, newAdvObject, oldAdvObject, i + 1)

\* the old directive takes the place of the new one
CopyBehavior(tree, old, ref, oldRef) ==
    IF ref.list = "behaviors"
    THEN [tree EXCEPT ![ref.rule].behaviors[ref.i] = Deref(old, oldRef)]
    ELSE [tree EXCEPT ![ref.rule].criteria[ref.i] = Deref(old, oldRef)]

\* newAdvObject.advNode.uuid = oldAdvObject.advNode.uuid
CopyBehaviorUuid(tree, old, ref, oldRef) ==
    IF ref.list = "behaviors"
    THEN [tree EXCEPT ![ref.rule].behaviors[ref.i].uuid = Deref(old, oldRef).uuid]
    ELSE [tree EXCEPT ![ref.rule].criteria[ref.i].uuid = Deref(old, oldRef).uuid]

KeepAll(oldFound, oldAdvObject) == oldFound

\* oldAdvMtdBehaviors[key].filter(x => x != oldAdvObject)
Cleanup(oldFound, oldAdvObject) ==
    SelectSeq(oldFound, LAMBDA x : x.advNode # oldAdvObject.advNode)

RECURSIVE MergeLoop(_, _, _, _, _)
MergeLoop(todo, oldFound, old, tree, matched) ==
    IF todo = <<>>
    THEN [threw |-> FALSE, message |-> Absent, rules |-> tree, matched |-> matched]
    ELSE LET newAdvObject == Head(todo)
             candidates == FindOld(oldFound, newAdvObject)
         IN  IF candidates # <<>>
             THEN LET oldAdvObject == Head(candidates)
                      chained == CopyChain(tree, old, newAdvObject, oldAdvObject, 1)
                      copied == CopyBehaviorUuid(chained, old, newAdvObject.advNode,
                                                 oldAdvObject.advNode)
                  IN  MergeLoop(Tail(todo), Cleanup(oldFound, oldAdvObject), old, copied,
                                Append(matched, [new |-> newAdvObject, old |-> oldAdvObject]))
             ELSE [threw |-> TRUE, message |-> newAdvObject.xml, rules |-> tree,
                   matched |-> matched]

\* rules is the object newRules as the call leaves it: the returned tree when
\* the call returns, the partly rewritten argument when it throws
mergeAdvancedUUIDRules(old, new) ==
    LET oldAdvMtdBehaviors == search(old, <<>>, <<>>)
        newAdvMtdBehaviors == search(new, <<>>, <<>>)
    IN  MergeLoop(VisitOrder(newAdvMtdBehaviors), oldAdvMtdBehaviors, old, new, <<>>)

(***************************************************************************)
(* The specification of the merge on its own: any two trees, one call.     *)
(***************************************************************************)
NotCalled == [threw |-> FALSE, message |-> Absent, rules |-> <<>>, matched |-> <<>>,
              called |-> FALSE]

MergeInit ==
    /\ oldRules \in OldTrees
    /\ newRules \in NewTrees
    /\ given = newRules
    /\ merged = NotCalled
    /\ cache = <<>> /\ property = <<>> /\ remote = <<>> /\ pc = "merge"
    /\ call = <<>> /\ requests = <<>> /\ result = <<>> /\ calls = 0

MergeCall ==
    /\ ~merged.called
    /\ LET out == mergeAdvancedUUIDRules(oldRules, newRules)
       IN  /\ merged' = [threw |-> out.threw, message |-> out.message,
                         rules |-> IF out.threw THEN <<>> ELSE out.rules,
                         matched |-> out.matched, called |-> TRUE]
           /\ newRules' = out.rules
    /\ UNCHANGED <<oldRules, given>>
    /\ UNCHANGED serviceVars

MergeNext == MergeCall

MergeSpec == MergeInit /\ [][MergeNext]_vars

(***************************************************************************)
(* Vocabulary of the claims about the merge, stated on the trees alone.    *)
(***************************************************************************)
\* the advanced and matchAdvanced directives of a tree
AdvRefs(tree) ==
    {Ref(p, "behaviors", i) : p \in DOMAIN tree, i \in 1..MaxDirs} \cup
    {Ref(p, "criteria", i) : p \in DOMAIN tree, i \in 1..MaxDirs}

AdvancedOf(tree) ==
    {r \in AdvRefs(tree) :
        /\ r.i \in DOMAIN (IF r.list = "behaviors" THEN tree[r.rule].behaviors
                           ELSE tree[r.rule].criteria)
        /\ Deref(tree, r).name \in AdvancedNames}

NoAdvanced(tree) == AdvancedOf(tree) = {}

SomeDirective(tree) ==
    \E p \in DOMAIN tree : tree[p].behaviors # <<>> \/ tree[p].criteria # <<>>

\* the opaque payload: the three fields concatenated, an absent one empty
Field(v) == IF v = Absent THEN <<>> ELSE v
OpaquePayload(options) == Field(options.xml) \o Field(options.openXml) \o Field(options.closeXml)
ContentHash(options) == md5(OpaquePayload(options))

\* number of non-root rules that enclose a directive, and the i-th of them
Depth(ref) == Len(ref.rule)
Enclosing(ref, i) == SubSeq(ref.rule, 1, i)

UuidsOf(tree) ==
    {tree[p].uuid : p \in DOMAIN tree} \cup
    {Deref(tree, r).uuid : r \in {q \in AdvRefs(tree) :
        q.i \in DOMAIN (IF q.list = "behaviors" THEN tree[q.rule].behaviors
                        ELSE tree[q.rule].criteria)}}

Returned == merged.called /\ ~merged.threw
Threw == merged.called /\ merged.threw

\* C1: with no advanced or matchAdvanced directive in either tree the call
\* returns newRules exactly as it was passed in.
C1_IdentityWithoutAdvanced ==
    (merged.called /\ NoAdvanced(oldRules) /\ NoAdvanced(given))
        => (Returned /\ merged.rules = given /\ newRules = given)

C1_Witness ==
    /\ Returned
    /\ NoAdvanced(oldRules) /\ NoAdvanced(given)
    /\ SomeDirective(given) /\ SomeDirective(oldRules)
    /\ \E p \in DOMAIN given : p # <<>>

\* C2: one advanced directive D in oldRules, one D' in newRules, the same
\* payload, the same number of enclosing non-root rules: the call returns,
\* D' has the uuid of D and the i-th enclosing rule of D' has the uuid of
\* the i-th enclosing rule of D.
C2_Premise(d, e) ==
    /\ AdvancedOf(oldRules) = {d}
    /\ AdvancedOf(given) = {e}
    /\ Deref(oldRules, d).options = Deref(given, e).options
    /\ Depth(d) = Depth(e)

C2_SingleDirectiveKeepsIdentity ==
    merged.called =>
        \A d \in AdvancedOf(oldRules) : \A e \in AdvancedOf(given) :
            C2_Premise(d, e) =>
                /\ Returned
                /\ Deref(newRules, e).uuid = Deref(oldRules, d).uuid
                /\ \A i \in 1..Depth(e) :
                      newRules[Enclosing(e, i)].uuid = oldRules[Enclosing(d, i)].uuid

\* C3: the call fails, names the payload and returns no tree whenever some
\* advanced directive of newRules has no directive of oldRules of its own, of
\* the same content hash and the same ancestor-chain length.
SameClass(old, d, new, e) ==
    /\ ContentHash(Deref(old, d).options) = ContentHash(Deref(new, e).options)
    /\ Depth(d) = Depth(e)

EachHasItsOwn(old, new) ==
    \E f \in [AdvancedOf(new) -> AdvancedOf(old)] :
        /\ \A e \in AdvancedOf(new) : SameClass(old, f[e], new, e)
        /\ \A e1 \in AdvancedOf(new) : \A e2 \in AdvancedOf(new) : f[e1] = f[e2] => e1 = e2

C3_UnmatchedFails ==
    (merged.called /\ ~EachHasItsOwn(oldRules, given))
        => /\ Threw
           /\ merged.rules = <<>>
           /\ \E e \in AdvancedOf(given) :
                 merged.message = OpaquePayload(Deref(given, e).options)

\* C4: every uuid of newRules after the call, returned or failed, is the one
\* the element had before or one carried by oldRules.
C4_NeverInventsUuid ==
    merged.called =>
        /\ DOMAIN newRules = DOMAIN given
        /\ \A p \in DOMAIN newRules :
              /\ newRules[p].uuid \in {given[p].uuid} \cup UuidsOf(oldRules)
              /\ DOMAIN newRules[p].behaviors = DOMAIN given[p].behaviors
              /\ DOMAIN newRules[p].criteria = DOMAIN given[p].criteria
              /\ \A i \in DOMAIN newRules[p].behaviors :
                    newRules[p].behaviors[i].uuid
                        \in {given[p].behaviors[i].uuid} \cup UuidsOf(oldRules)
              /\ \A i \in DOMAIN newRules[p].criteria :
                    newRules[p].criteria[i].uuid
                        \in {given[p].criteria[i].uuid} \cup UuidsOf(oldRules)

C4_Witness ==
    /\ Returned
    /\ \E p \in DOMAIN newRules : p # <<>> /\ newRules[p].uuid # given[p].uuid
    /\ \E e \in AdvancedOf(given) : Deref(newRules, e).uuid # Deref(given, e).uuid

\* C5: an old directive satisfies at most one new directive, and the call
\* fails when newRules has more directives of some content hash and
\* ancestor-chain length than oldRules has.
CountLike(tree, options, depth) ==
    Cardinality({r \in AdvancedOf(tree) :
        ContentHash(Deref(tree, r).options) = ContentHash(options) /\ Depth(r) = depth})

C5_OldSatisfiesAtMostOne ==
    /\ Returned =>
          \A i \in DOMAIN merged.matched : \A j \in DOMAIN merged.matched :
              merged.matched[i].old.advNode = merged.matched[j].old.advNode => i = j
    /\ (merged.called /\ \E e \in AdvancedOf(given) :
            CountLike(given, Deref(given, e).options, Depth(e))
                > CountLike(oldRules, Deref(given, e).options, Depth(e)))
          => Threw

(***************************************************************************)
(* Part 2.  The engine with one property: the lookup cache, the property   *)
(* object, the remote service, and the calls update() and activate().      *)
(* Every action is one step of a call between two suspension points: the   *)
(* resolution of the lookup, one request and the handling of its response. *)
(* The answer of the service is an input of the step.                      *)
(***************************************************************************)
MaxCalls == 1          \* calls started in one behaviour
InitialVersions == 2   \* versions the property has on the service at the start
MaxSubmissions == 3    \* activation requests followed within one call
MaxPolls == 3          \* polls followed within one call
MaxRequests == 4       \* activation requests and polls followed within one call
MaxEarlierCalls == 1   \* calls that may precede a call of createNewPropertyVersion

\* JavaScript values held as a version
Num(n) == [t |-> "number", v |-> n]
Str(n) == [t |-> "string", v |-> n]
EmptyObject == [t |-> "object", v |-> 0]
Null == [t |-> "null", v |-> 0]

\* the number a value names inside a request path or body (0: none)
Named(x) == IF x.t \in {"number", "string"} THEN x.v ELSE 0

\* x && x > 0
Positive(x) == x.t \in {"number", "string"} /\ x.v > 0

\* !x || x <= 0
NotPositive(x) == ~(x.t \in {"number", "string"}) \/ x.v <= 0

\* LATEST_VERSION of ./const
LATEST_VERSION == [STAGING |-> Num(0 - 2), PRODUCTION |-> Num(0 - 1), LATEST |-> Num(0)]

\* the latest version whatever is asked for
OnlyLatestVersion(prop, env) == prop.latestVersion

_getLatestVersion(prop, env) ==
    IF env = LATEST_VERSION.PRODUCTION THEN prop.productionVersion
    ELSE IF env = LATEST_VERSION.STAGING THEN prop.stagingVersion
    ELSE IF env = LATEST_VERSION.LATEST THEN prop.latestVersion
    ELSE env

PropertyId == "prp_1"
PropertyName == "site"

\* what a caller passes as propertyLookup: the property object itself or a string
TheRecord == [record |-> TRUE, key |-> PropertyId]
Key(k) == [record |-> FALSE, key |-> k]
Lookups == {TheRecord, Key("prp_1"), Key("site"), Key("prp_9")}

\* propertyLookup.match('prp_')
MatchesPrp(k) == k \in {"prp_1", "prp_9"}

Response(status) == [status |-> status, warnings |-> <<>>]

Request(kind, method, version, body, response) ==
    [kind |-> kind, method |-> method, version |-> version, body |-> body,
     response |-> response]

NoBody == <<>>

(***************************************************************************)
(* _getProperty.  ans holds the answers of the service to the requests the *)
(* resolution may send.  The outcome is ok (the property object),          *)
(* rejected, or hung (a promise that never settles); found tells that a    *)
(* fresh object was read from the service and stored in the cache.         *)
(***************************************************************************)
ResolveAnswers ==
    [formats : {"ok", "fail"},
     search : {"hit1", "hit2", "hit3", "miss", "err1", "err2", "err3"},
     metadata : {"ok", "silent"}]

\* the answers followed when a later step of a call resolves the lookup again
StepAnswers == {a \in ResolveAnswers : a.search \in {"hit1", "miss", "err1"}}

\* this._propertyById[key] || this._propertyByName[key]; _propertyByHost is
\* never written and stays empty
Cached(c, key) == key \in c.byId \/ key \in c.byName

\* the answers of a resolution that asks for none
NoAnswers == [formats |-> "ok", search |-> "miss", metadata |-> "ok"]

\* an answer the resolution never asks for is the default one
Asked(c, lookup, ans) ==
    LET asksFormats == ~lookup.record /\ ~c.initComplete /\ c.byId = {}
        asksSearch == /\ ~lookup.record
                      /\ ans.formats = "ok"
                      /\ ~Cached(c, lookup.key)
                      /\ MatchesPrp(lookup.key)
        asksMetadata == asksSearch /\ ans.search \in {"hit1", "hit2", "hit3"}
    IN  /\ ~asksFormats => ans.formats = "ok"
        /\ ~asksSearch => ans.search = "miss"
        /\ ~asksMetadata => ans.metadata = "ok"

_init(c, ans) ==
    IF c.initComplete
    THEN [status |-> "ok", cache |-> c, reqs |-> <<>>, found |-> FALSE]
    ELSE IF c.byId # {}
    THEN [status |-> "ok", cache |-> [c EXCEPT !.initComplete = TRUE], reqs |-> <<>>,
          found |-> FALSE]
    ELSE [status |-> IF ans.formats = "ok" THEN "ok" ELSE "rejected",
          cache |-> c,
          reqs |-> <<Request("rule-formats", "GET", Null, NoBody, Response(ans.formats))>>,
          found |-> FALSE]

_searchByValue(by, key, status) ==
    Request("find-by-value", "POST", Null, [by |-> by, value |-> key], Response(status))

_getPropertyMetadata(status) == Request("property", "GET", Null, NoBody, Response(status))

_findProperty(c, key, ans) ==
    LET s1(r) == <<_searchByValue("propertyName", key, r)>>
        s2(r) == s1("empty") \o <<_searchByValue("hostname", key, r)>>
        s3(r) == s2("empty") \o <<_searchByValue("edgeHostname", key, r)>>
        searches ==
            CASE ans.search = "hit1" -> s1("found")
              [] ans.search = "hit2" -> s2("found")
              [] ans.search = "hit3" -> s3("found")
              [] ans.search = "miss" -> s3("empty")
              [] ans.search = "err1" -> s1("error")
              [] ans.search = "err2" -> s2("error")
              [] ans.search = "err3" -> s3("error")
        hit == ans.search \in {"hit1", "hit2", "hit3"}
    IN  IF ans.search \in {"err1", "err2", "err3"}
        THEN [status |-> "rejected", cache |-> c, reqs |-> searches, found |-> FALSE]
        ELSE IF ~hit
        THEN [status |-> "none", cache |-> c, reqs |-> searches, found |-> FALSE]
        ELSE IF ans.metadata = "silent"
        THEN [status |-> "hung", cache |-> c,
              reqs |-> Append(searches, _getPropertyMetadata("silent")), found |-> FALSE]
        ELSE [status |-> "ok",
              cache |-> [c EXCEPT !.byName = @ \cup {PropertyName},
                                  !.byId = @ \cup {PropertyId}],
              reqs |-> Append(searches, _getPropertyMetadata("ok")), found |-> TRUE]

\* a resolution that starts with _init whatever the lookup is
InitWhateverLookup(c, lookup, ans) == _init(c, ans)

_getProperty(c, lookup, ans) ==
    IF lookup.record
    THEN [status |-> "ok", cache |-> c, reqs |-> <<>>, found |-> FALSE]
    ELSE
    LET init == _init(c, ans)
    IN  IF init.status # "ok" THEN init
        ELSE IF Cached(init.cache, lookup.key) THEN init
        ELSE IF ~MatchesPrp(lookup.key)
        THEN [init EXCEPT !.status = "rejected"]
        ELSE LET found == _findProperty(init.cache, lookup.key, ans)
             IN  [found EXCEPT !.status = IF @ = "none" THEN "rejected" ELSE @,
                               !.reqs = init.reqs \o @]

(***************************************************************************)
(* The state after construction, and the service.                          *)
(***************************************************************************)
NoProperty == [latestVersion |-> Null, stagingVersion |-> Null, productionVersion |-> Null]
NoFetched == [propertyVersion |-> Null, rules |-> <<>>]
NoDoc == [rules |-> <<>>]

NoCall ==
    [op |-> "none", lookup |-> TheRecord, passed |-> NoDoc, doc |-> NoDoc,
     fromVersion |-> Null,
     newVersionId |-> Null, fetched |-> NoFetched, existed |-> 0,
     version |-> Null, activationVersion |-> Null, network |-> "STAGING",
     notes |-> "", email |-> <<"test@example.com">>, wait |-> FALSE,
     acknowledgeWarnings |-> <<>>, activationId |-> "",
     own |-> NoProperty, detached |-> FALSE]

NoResult == [state |-> "none", value |-> ""]
Pending == [state |-> "pending", value |-> ""]

TreeOf(side, kinds) ==
    BuildTree(side, DefaultUuid,
              [i \in DOMAIN kinds |-> [path |-> <<1>>, kind |-> kinds[i]]])

\* rule trees held by the service, and documents passed to update
RemoteTrees == {TreeOf("old", <<>>), TreeOf("old", <<AdvancedA>>)}
CallerDocs ==
    {[rules |-> t] : t \in {TreeOf("new", <<>>), TreeOf("new", <<AdvancedA>>),
                            TreeOf("new", <<AdvancedB>>)}}

\* the property object the service describes (properties.items[0])
Snapshot(rem) ==
    [latestVersion |-> Num(rem.latest), stagingVersion |-> rem.stagingVersion,
     productionVersion |-> rem.productionVersion]

Init ==
    /\ cache \in [initComplete : BOOLEAN, byId : {{}}, byName : {{}}]
    /\ \E n \in 1..InitialVersions, t \in RemoteTrees :
          remote = [latest |-> n, rules |-> [v \in 1..n |-> t],
                    stagingVersion |-> Num(1), productionVersion |-> Null]
    /\ property = NoProperty
    /\ pc = "idle"
    /\ call = NoCall
    /\ requests = <<>>
    /\ result = NoResult
    /\ calls = 0
    /\ oldRules = <<>> /\ newRules = <<>> /\ given = <<>> /\ merged = NotCalled

\* the objects of a step: the one the cache holds and the one the call holds;
\* a fresh object in the cache leaves the call with the object it had
Current == [cached |-> property, own |-> call.own, detached |-> call.detached]

Objects(r) ==
    IF r.found
    THEN [cached |-> Snapshot(remote),
          own |-> IF call.detached THEN call.own ELSE property,
          detached |-> TRUE]
    ELSE Current

Held(o) == IF o.detached THEN o.own ELSE o.cached

Write(o, field, val) ==
    IF o.detached THEN [o EXCEPT !.own[field] = val]
    ELSE [o EXCEPT !.cached[field] = val]

Settle(state, value) ==
    /\ pc' = "idle"
    /\ result' = [state |-> state, value |-> value]

\* how a step ends when the resolution of the lookup did not give the object
Unresolved(r) ==
    /\ r.status # "ok"
    /\ IF r.status = "hung" THEN pc' = "hung" /\ result' = Pending
       ELSE Settle("rejected", "lookup")

\* the property objects a caller may hold without the cache having them
Records == {[Snapshot(remote) EXCEPT !.latestVersion = Num(k)] : k \in 1..remote.latest}

\* the first step of a call: the resolution of the lookup.  rec is the object
\* given as the lookup when the cache holds none.
Begin(lookup, rec, ans, next) ==
    /\ rec \in Records
    /\ ~(lookup.record /\ cache.byId = {}) => rec = Snapshot(remote)
    /\ Asked(cache, lookup, ans)
    /\ LET r == _getProperty(cache, lookup, ans)
       IN  /\ cache' = r.cache
           /\ property' = IF r.found THEN Snapshot(remote) ELSE property
           /\ requests' = r.reqs
           /\ IF r.status = "ok" THEN pc' = next /\ result' = Pending
              ELSE Unresolved(r)
    /\ calls' = calls + 1
    /\ oldRules' = <<>> /\ newRules' = <<>> /\ given' = <<>> /\ merged' = NotCalled
    /\ UNCHANGED remote

Frame(op, lookup, rec) ==
    [NoCall EXCEPT !.op = op, !.lookup = lookup, !.existed = remote.latest,
                   !.detached = lookup.record /\ cache.byId = {},
                   !.own = IF lookup.record /\ cache.byId = {} THEN rec ELSE NoProperty]

\* the object the call holds once its first step is over
Resolved(lookup, rec) ==
    IF lookup.record /\ cache.byId = {} THEN rec ELSE property'

MergeUnchanged == UNCHANGED <<oldRules, newRules, given, merged>>

(***************************************************************************)
(* update(propertyLookup, newRules)                                        *)
(***************************************************************************)
\* update: _getProperty, then `const version = property.latestVersion`
update(lookup, rec, doc, ans) ==
    /\ Begin(lookup, rec, ans, "update:copy")
    /\ call' = [Frame("update", lookup, rec) EXCEPT
                  !.passed = doc, !.doc = doc, !.fromVersion = Resolved(lookup, rec).latestVersion]

CopyAnswers == {"created", "nolink", "404", "error"}

\* _copyPropertyVersion(property, version), then
\* `property.latestVersion = newVersionId` of update
_copyPropertyVersion(answer) ==
    /\ pc = "update:copy"
    /\ LET from == Named(call.fromVersion)
           req == Request("versions", "POST", Null,
                          [createFromVersion |-> call.fromVersion], Response(answer))
           newVersionId == IF answer = "created" THEN Str(remote.latest + 1)
                           ELSE EmptyObject
           o == Write(Current, "latestVersion", newVersionId)
       IN  /\ answer = "created" => from \in 1..remote.latest
           /\ requests' = Append(requests, req)
           /\ remote' = IF answer = "created"
                        THEN [remote EXCEPT
                                !.latest = @ + 1,
                                !.rules = [v \in 1..(remote.latest + 1) |->
                                             IF v <= remote.latest THEN remote.rules[v]
                                             ELSE remote.rules[from]]]
                        ELSE remote
           /\ IF answer \in {"created", "404"}
              THEN /\ property' = o.cached
                   /\ call' = [call EXCEPT !.newVersionId = newVersionId, !.own = o.own]
                   /\ pc' = "update:retrieve"
                   /\ UNCHANGED result
              ELSE /\ Settle("rejected", IF answer = "nolink" THEN "cannot find version"
                                         ELSE "response")
                   /\ UNCHANGED <<property, call>>
    /\ UNCHANGED <<cache, calls>>
    /\ MergeUnchanged

\* retrieve(property, newVersionId): the version it asks for
RetrieveVersion(prop, versionLookup) ==
    IF Positive(versionLookup) THEN versionLookup
    ELSE _getLatestVersion(prop, versionLookup)

\* retrieve -> _getPropertyRules(property.propertyId, version)
retrieve(ans, answer) ==
    /\ pc = "update:retrieve"
    /\ answer \in {"ok", "error"}
    /\ Asked(cache, Key(PropertyId), ans)
    /\ LET r == _getProperty(cache, Key(PropertyId), ans)
           o == Objects(r)
           version == RetrieveVersion(Held(Current), call.newVersionId)
           req == Request("rules", "GET", version, NoBody, Response(answer))
       IN  /\ cache' = r.cache
           /\ property' = o.cached
           /\ IF r.status # "ok"
              THEN /\ Unresolved(r)
                   /\ requests' = requests \o r.reqs
                   /\ call' = [call EXCEPT !.own = o.own, !.detached = o.detached]
              ELSE /\ answer = "ok" => Named(version) \in 1..remote.latest
                   /\ requests' = Append(requests \o r.reqs, req)
                   /\ IF answer = "ok"
                      THEN /\ call' = [call EXCEPT
                                         !.own = o.own, !.detached = o.detached,
                                         !.fetched = [propertyVersion |-> Num(Named(version)),
                                                      rules |-> remote.rules[Named(version)]]]
                           /\ pc' = "update:merge"
                           /\ UNCHANGED result
                      ELSE /\ call' = [call EXCEPT !.own = o.own, !.detached = o.detached]
                           /\ Settle("rejected", "response")
    /\ UNCHANGED <<remote, calls>>
    /\ MergeUnchanged

\* the two trees in the other order
MergeArgumentsSwapped(fetched, doc) == [old |-> doc.rules, new |-> fetched.rules]

\* the arguments update gives to mergeAdvancedUUIDRules
MergeArguments(fetched, doc) == [old |-> fetched.rules, new |-> doc.rules]

\* updatedRules.rules = mergeAdvancedUUIDRules(oldRules.rules, newRules.rules) ? ...
UpdateMerge ==
    /\ pc = "update:merge"
    /\ LET args == MergeArguments(call.fetched, call.doc)
           out == mergeAdvancedUUIDRules(args.old, args.new)
       IN  /\ oldRules' = args.old
           /\ given' = args.new
           /\ newRules' = out.rules
           /\ merged' = [threw |-> out.threw, message |-> out.message,
                         rules |-> IF out.threw THEN <<>> ELSE out.rules,
                         matched |-> out.matched, called |-> TRUE]
           /\ call' = [call EXCEPT !.doc = [rules |-> out.rules]]
           /\ IF out.threw THEN Settle("rejected", "merge")
              ELSE pc' = "update:put" /\ UNCHANGED result
    /\ UNCHANGED <<cache, property, remote, requests, calls>>

\* the version the copy was made from
PutSourceVersion(c) == c.fromVersion

\* the version update writes to: oldRules.propertyVersion
PutVersion(c) == c.fetched.propertyVersion

\* _updatePropertyRules(property, oldRules.propertyVersion, updatedRules)
_updatePropertyRules(answer) ==
    /\ pc = "update:put"
    /\ answer \in {"ok", "error"}
    /\ LET version == PutVersion(call)
           req == Request("rules", "PUT", version, call.doc, Response(answer))
       IN  /\ requests' = Append(requests, req)
           /\ remote' = IF answer = "ok"
                        THEN [remote EXCEPT !.rules[Named(version)] = call.doc.rules]
                        ELSE remote
           /\ Settle(IF answer = "ok" THEN "resolved" ELSE "rejected", "response")
    /\ UNCHANGED <<cache, property, call, calls>>
    /\ MergeUnchanged

(***************************************************************************)
(* activate(propertyLookup, version, networkEnv, notes, email, wait)       *)
(***************************************************************************)
Networks == {"STAGING", "PRODUCTION"}
VersionArguments == {Num(1)} \cup {LATEST_VERSION[k] : k \in DOMAIN LATEST_VERSION}

\* if (!version || version <= 0) activationVersion = _getLatestVersion(...)
ActivationVersion(prop, version) ==
    IF NotPositive(version) THEN _getLatestVersion(prop, version) ELSE version

activate(lookup, rec, version, network, wait, ans) ==
    /\ Begin(lookup, rec, ans, "activate:submit")
    /\ call' = [Frame("activate", lookup, rec) EXCEPT
                  !.version = version, !.network = network, !.wait = wait,
                  !.activationVersion = ActivationVersion(Resolved(lookup, rec), version)]

Warning(id) == [messageId |-> id, detail |-> "detail"]
WarningLists == {<<Warning("w1")>>, <<Warning("w2"), Warning("w1")>>}

\* the ids from the last warning to the first
ReversedMessages(warnings) ==
    [i \in DOMAIN warnings |-> warnings[Len(warnings) + 1 - i].messageId]

\* body.warnings.map(warning => messages.push(warning.messageId))
Messages(warnings) == [i \in DOMAIN warnings |-> warnings[i].messageId]

\* the body of the POST of _activateProperty
activationData(c) ==
    [propertyVersion |-> c.activationVersion, network |-> c.network,
     note |-> c.notes, notifyEmails |-> c.email,
     acknowledgeWarnings |-> c.acknowledgeWarnings]

IsSubmission(q) == q.kind = "activations" /\ q.method = "POST"
Submissions == Len(SelectSeq(requests, IsSubmission))

\* what _activateProperty does with a parsed body that reports warnings
Resubmit(c, warnings) == [c EXCEPT !.acknowledgeWarnings = Messages(warnings)]

SubmitAnswers == {"accepted", "warnings-not-acknowledged", "invalid", "error"}

\* one run of _activateProperty; on the activation id the continuation of
\* activate records the version and goes on to poll or resolves
_activateProperty(ans, answer, warnings) ==
    /\ pc = "activate:submit"
    /\ answer # "warnings-not-acknowledged" => warnings = <<>>
    /\ Asked(cache, call.lookup, ans)
    /\ LET r == _getProperty(cache, call.lookup, ans)
           o == Objects(r)
           here == [call EXCEPT !.own = o.own, !.detached = o.detached]
           req == Request("activations", "POST", Null, activationData(call),
                          [status |-> answer, warnings |-> warnings])
           pointer == IF call.network = "STAGING" THEN "stagingVersion"
                      ELSE "productionVersion"
           w == Write(o, pointer, call.activationVersion)
       IN  /\ cache' = r.cache
           /\ IF r.status # "ok"
              THEN /\ Unresolved(r)
                   /\ requests' = requests \o r.reqs
                   /\ property' = o.cached
                   /\ call' = here
              ELSE /\ answer = "accepted" => Named(call.activationVersion) \in 1..remote.latest
                   /\ requests' = Append(requests \o r.reqs, req)
                   /\ CASE answer = "warnings-not-acknowledged" ->
                             /\ call' = Resubmit(here, warnings)
                             /\ property' = o.cached
                             /\ UNCHANGED <<pc, result>>
                        [] answer = "accepted" ->
                             /\ property' = w.cached
                             /\ call' = [here EXCEPT !.own = w.own, !.activationId = "atv_1"]
                             /\ IF call.wait THEN pc' = "activate:poll" /\ UNCHANGED result
                                ELSE Settle("resolved", "atv_1")
                        [] OTHER ->
                             /\ call' = here
                             /\ property' = o.cached
                             /\ Settle("rejected", "response")
    /\ UNCHANGED <<remote, calls>>
    /\ MergeUnchanged

ItemLists ==
    {<<>>, <<"ACTIVE">>, <<"PENDING">>, <<"ABORTED">>, <<"PENDING", "ACTIVE">>}

\* sleep(30000)
InterPollDelay == 30000
Sleep == Request("sleep", "", Null, [ms |-> InterPollDelay], Response(""))

\* the last item alone decides
PollFoldLast(items, pending, active) ==
    IF items = <<>> THEN [pending |-> pending, active |-> active]
    ELSE [pending |-> items[Len(items)] # "ACTIVE", active |-> items[Len(items)] = "ACTIVE"]

\* the fold of _pollActivation over data.activations.items
RECURSIVE PollFold(_, _, _)
PollFold(items, pending, active) ==
    IF items = <<>> THEN [pending |-> pending, active |-> active]
    ELSE LET p == pending \/ Head(items) # "ACTIVE"
         IN  PollFold(Tail(items), p, ~p /\ Head(items) = "ACTIVE")

IsPoll(q) == q.kind = "activation" /\ q.method = "GET"
Polls == Len(SelectSeq(requests, IsPoll))

PollAnswers == {"200", "500", "error"}

\* the items of a 500 answer are one PENDING item
PollDataActive(answer, items) == IF answer = "500" THEN <<"ACTIVE">> ELSE items

\* data.activations.items of the parsed answer, or of the object resolved on a 500
PollData(answer, items) == IF answer = "500" THEN <<"PENDING">> ELSE items

\* one run of _pollActivation
_pollActivation(ans, answer, items) ==
    /\ pc = "activate:poll"
    /\ answer # "200" => items = <<>>
    /\ Asked(cache, call.lookup, ans)
    /\ LET r == _getProperty(cache, call.lookup, ans)
           o == Objects(r)
           req == Request("activation", "GET", Null, [activationID |-> call.activationId],
                          [status |-> answer, warnings |-> items])
           fold == PollFold(PollData(answer, items), FALSE, FALSE)
       IN  /\ cache' = r.cache
           /\ property' = o.cached
           /\ call' = [call EXCEPT !.own = o.own, !.detached = o.detached]
           /\ IF r.status # "ok"
              THEN /\ Unresolved(r)
                   /\ requests' = requests \o r.reqs
              ELSE /\ requests' = Append(requests \o r.reqs, req)
                                  \o (IF answer # "error" /\ fold.pending THEN <<Sleep>>
                                      ELSE <<>>)
                   /\ IF answer = "error" THEN Settle("rejected", "response")
                      ELSE IF fold.pending THEN UNCHANGED <<pc, result>>
                      ELSE IF fold.active THEN Settle("resolved", "true")
                      ELSE Settle("rejected", "data")
    /\ UNCHANGED <<remote, calls>>
    /\ MergeUnchanged

(***************************************************************************)
(* deactivate(propertyLookup, networkEnv, notes, email, wait)              *)
(***************************************************************************)
\* !x of a version
Unset(x) == x.t \in {"null", "undefined"} \/ (x.t = "number" /\ x.v = 0)

\* x || 1
OrOne(x) == IF Unset(x) THEN Num(1) ELSE x

\* deactivate: _getProperty and deactivationVersion
deactivate(lookup, rec, network, wait, ans) ==
    /\ Begin(lookup, rec, ans, "deactivate:submit")
    /\ call' = [Frame("deactivate", lookup, rec) EXCEPT
                  !.network = network, !.wait = wait,
                  !.activationVersion =
                      OrOne(_getLatestVersion(Resolved(lookup, rec),
                                              IF network = "STAGING"
                                              THEN LATEST_VERSION.STAGING
                                              ELSE LATEST_VERSION.PRODUCTION))]

\* the body of the POST of _deactivateProperty
deactivationData(c) ==
    [propertyVersion |-> c.activationVersion, network |-> c.network,
     notifyEmails |-> c.email, activationType |-> "DEACTIVATE",
     complianceRecord |-> [noncomplianceReason |-> "NO_PRODUCTION_TRAFFIC"]]

\* the answers _deactivateProperty tells apart: an activation link, a body
\* without one, the error 'property_version_not_active' with status 400 and
\* with a status above 400, and another error
DeactivateAnswers == {"accepted", "invalid", "not-active-400", "not-active-422", "error"}

\* response.statusCode >= 200 && response.statusCode <= 400
ParsedAsSuccess(answer) == answer \in {"accepted", "invalid", "not-active-400"}

\* response.body.match('property_version_not_active')
NotActive(answer) == answer \in {"not-active-400", "not-active-422"}

\* one run of _deactivateProperty, and the continuation of deactivate
_deactivateProperty(ans, answer) ==
    /\ pc = "deactivate:submit"
    /\ Asked(cache, call.lookup, ans)
    /\ LET r == _getProperty(cache, call.lookup, ans)
           o == Objects(r)
           here == [call EXCEPT !.own = o.own, !.detached = o.detached]
           req == Request("activations", "POST", Null, deactivationData(call),
                          Response(answer))
           pointer == IF call.network = "STAGING" THEN "stagingVersion"
                      ELSE "productionVersion"
           w == Write(o, pointer, Null)
       IN  /\ cache' = r.cache
           /\ IF r.status # "ok"
              THEN /\ Unresolved(r)
                   /\ requests' = requests \o r.reqs
                   /\ property' = o.cached
                   /\ call' = here
              ELSE /\ answer = "accepted" => Named(call.activationVersion) \in 1..remote.latest
                   /\ requests' = Append(requests \o r.reqs, req)
                   /\ IF ParsedAsSuccess(answer)
                      THEN IF answer = "accepted"
                           THEN /\ property' = w.cached
                                /\ call' = [here EXCEPT !.own = w.own, !.activationId = "atv_1"]
                                /\ IF call.wait THEN pc' = "activate:poll" /\ UNCHANGED result
                                   ELSE Settle("resolved", "atv_1")
                           ELSE /\ call' = here
                                /\ property' = o.cached
                                /\ Settle("rejected", "parsed")
                      ELSE /\ call' = here
                           /\ property' = o.cached
                           /\ IF NotActive(answer) THEN Settle("resolved", "undefined")
                              ELSE Settle("rejected", "response")
    /\ UNCHANGED <<remote, calls>>
    /\ MergeUnchanged

(***************************************************************************)
(* promoteStagingToProd(propertyLookup, notes, email)                      *)
(***************************************************************************)
\* `let stagingVersion;`, which no statement assigns
Undefined == [t |-> "undefined", v |-> 0]

\* the parameter `version = LATEST_VERSION.LATEST` of activate
VersionOrDefault(version) == IF version = Undefined THEN LATEST_VERSION.LATEST ELSE version

\* promoteStagingToProd: _getProperty
promoteStagingToProd(lookup, rec, ans) ==
    /\ Begin(lookup, rec, ans, "promote:then")
    /\ call' = Frame("promote", lookup, rec)

\* the then-callback of promoteStagingToProd: the promises of the first and
\* of the last branch are not returned, so the call resolves with undefined;
\* the middle branch is activate up to its own resolution of the lookup,
\* whose object is the one activate holds from then on
PromoteThen(ans) ==
    /\ pc = "promote:then"
    /\ LET prop == Held(Current)
           stagingVersion == Undefined
           r == _getProperty(cache, call.lookup, ans)
           cached == IF r.found THEN Snapshot(remote) ELSE property
           held == IF call.detached THEN call.own ELSE cached
           version == VersionOrDefault(stagingVersion)
       IN  IF ~Unset(prop.stagingVersion) /\ prop.productionVersion # prop.stagingVersion
           THEN /\ Asked(cache, call.lookup, ans)
                /\ cache' = r.cache
                /\ property' = cached
                /\ requests' = requests \o r.reqs
                /\ IF r.status # "ok"
                   THEN Unresolved(r) /\ UNCHANGED call
                   ELSE /\ call' = [call EXCEPT
                                      !.version = version, !.network = "PRODUCTION",
                                      !.wait = TRUE,
                                      !.activationVersion = ActivationVersion(held, version)]
                        /\ pc' = "activate:submit"
                        /\ UNCHANGED result
           ELSE /\ ans = NoAnswers
                /\ Settle("resolved", "undefined")
                /\ UNCHANGED <<cache, property, requests, call>>
    /\ UNCHANGED <<remote, calls>>
    /\ MergeUnchanged

(***************************************************************************)
(* createNewPropertyVersion(propertyLookup)                                *)
(***************************************************************************)
\* x += 1 of JavaScript: a sum for a number and for null, a concatenation
\* for a string ("3" + 1 is "31") and for an object ("[object Object]1")
PlusOne(x) ==
    CASE x.t = "number" -> Num(x.v + 1)
      [] x.t = "null" -> Num(1)
      [] x.t = "string" -> Str(x.v * 10 + 1)
      [] OTHER -> [t |-> "text", v |-> 0]

\* createNewPropertyVersion: _getProperty
createNewPropertyVersion(lookup, rec, ans) ==
    /\ Begin(lookup, rec, ans, "create:copy")
    /\ call' = Frame("create", lookup, rec)

\* what the copy resolves with when the service has no such property version
CopyOf404 == EmptyObject

\* the rest of createNewPropertyVersion: `const version =
\* this._getLatestVersion(property, 0); property.latestVersion += 1`, then
\* _copyPropertyVersion(property, version), whose _getProperty gives the
\* object back, and the handling of the answer to its request
CreateCopy(answer) ==
    /\ pc = "create:copy"
    /\ LET version == _getLatestVersion(Held(Current), Num(0))
           o == Write(Current, "latestVersion", PlusOne(Held(Current).latestVersion))
           r == _getProperty(cache, TheRecord, NoAnswers)
           from == Named(version)
           req == Request("versions", "POST", Null,
                          [createFromVersion |-> version], Response(answer))
       IN  /\ answer = "created" => from \in 1..remote.latest
           /\ property' = o.cached
           /\ cache' = r.cache
           /\ requests' = Append(requests \o r.reqs, req)
           /\ remote' = IF answer = "created"
                        THEN [remote EXCEPT
                                !.latest = @ + 1,
                                !.rules = [v \in 1..(remote.latest + 1) |->
                                             IF v <= remote.latest THEN remote.rules[v]
                                             ELSE remote.rules[from]]]
                        ELSE remote
           /\ call' = [call EXCEPT
                         !.own = o.own, !.fromVersion = version,
                         !.newVersionId = IF answer = "created" THEN Str(remote.latest + 1)
                                          ELSE IF answer = "404" THEN CopyOf404
                                          ELSE Null]
           /\ CASE answer = "created" -> Settle("resolved", ToString(remote.latest + 1))
                [] answer = "404" -> Settle("resolved", "{}")
                [] answer = "nolink" -> Settle("rejected", "cannot find version")
                [] OTHER -> Settle("rejected", "response")
    /\ UNCHANGED calls
    /\ MergeUnchanged

(***************************************************************************)
(* The actions: a call starts when the engine is idle, and the other steps *)
(* are those of the call in progress, each with the answers of the service *)
(* as its input.                                                           *)
(***************************************************************************)
UpdateResolve ==
    /\ pc = "idle"
    /\ calls < MaxCalls
    /\ \E l \in Lookups, r \in Records, d \in CallerDocs, a \in ResolveAnswers :
          update(l, r, d, a)

UpdateCopy ==
    /\ pc = "update:copy"
    /\ \E x \in CopyAnswers : _copyPropertyVersion(x)

UpdateRetrieve ==
    /\ pc = "update:retrieve"
    /\ \E a \in StepAnswers, x \in {"ok", "error"} : retrieve(a, x)

UpdatePut ==
    /\ pc = "update:put"
    /\ \E x \in {"ok", "error"} : _updatePropertyRules(x)

ActivateResolve ==
    /\ pc = "idle"
    /\ calls < MaxCalls
    /\ \E l \in Lookups, r \in Records, v \in VersionArguments, n \in Networks,
          w \in BOOLEAN, a \in ResolveAnswers : activate(l, r, v, n, w, a)

ActivateSubmit ==
    /\ pc = "activate:submit"
    /\ Submissions < MaxSubmissions
    /\ Submissions + Polls < MaxRequests
    /\ \E a \in StepAnswers, x \in SubmitAnswers, ws \in WarningLists \cup {<<>>} :
          _activateProperty(a, x, ws)

ActivatePoll ==
    /\ pc = "activate:poll"
    /\ Polls < MaxPolls
    /\ Submissions + Polls < MaxRequests
    /\ \E a \in StepAnswers, x \in PollAnswers, it \in ItemLists :
          _pollActivation(a, x, it)

CreateResolve ==
    /\ pc = "idle"
    /\ calls <= MaxEarlierCalls
    /\ \E l \in Lookups, r \in Records, a \in ResolveAnswers :
          createNewPropertyVersion(l, r, a)

CreateVersion ==
    /\ pc = "create:copy"
    /\ \E x \in CopyAnswers : CreateCopy(x)

DeactivateResolve ==
    /\ pc = "idle"
    /\ calls < MaxCalls
    /\ \E l \in Lookups, r \in Records, n \in Networks, w \in BOOLEAN,
          a \in ResolveAnswers : deactivate(l, r, n, w, a)

DeactivateSubmit ==
    /\ pc = "deactivate:submit"
    /\ \E a \in StepAnswers, x \in DeactivateAnswers : _deactivateProperty(a, x)

PromoteResolve ==
    /\ pc = "idle"
    /\ calls < MaxCalls
    /\ \E l \in Lookups, r \in Records, a \in ResolveAnswers :
          promoteStagingToProd(l, r, a)

PromoteActivate ==
    /\ pc = "promote:then"
    /\ \E a \in StepAnswers : PromoteThen(a)

UpdateNext == UpdateResolve \/ UpdateCopy \/ UpdateRetrieve \/ UpdateMerge \/ UpdatePut

ActivateNext == ActivateResolve \/ ActivateSubmit \/ ActivatePoll

CreateNext == CreateResolve \/ CreateVersion

VersionNext == UpdateNext \/ CreateNext

DeactivateNext == DeactivateResolve \/ DeactivateSubmit \/ ActivatePoll

PromoteNext == PromoteResolve \/ PromoteActivate \/ ActivateSubmit \/ ActivatePoll

Next == UpdateNext \/ ActivateNext \/ CreateNext \/ DeactivateNext \/ PromoteNext

\* the engine
Spec == Init /\ [][Next]_vars

\* the engine whose callers call update only
UpdateSpec == Init /\ [][UpdateNext]_vars

\* the engine whose callers call update and createNewPropertyVersion
VersionSpec == Init /\ [][VersionNext]_vars

\* the engine whose callers call activate only; the rule trees, which
\* activate never reads, are the plain ones
ActivateInit == Init /\ \A v \in DOMAIN remote.rules : remote.rules[v] = TreeOf("old", <<>>)
ActivateSpec == ActivateInit /\ [][ActivateNext]_vars

\* the engine whose callers call deactivate only
DeactivateSpec == ActivateInit /\ [][DeactivateNext]_vars

\* the pointers a property may have on the service
Pointers == {Null, Num(1)}

\* the engine whose callers call promoteStagingToProd only, the property
\* being active on either network or on none
PromoteInit ==
    /\ cache \in [initComplete : BOOLEAN, byId : {{}}, byName : {{}}]
    /\ \E n \in 1..InitialVersions, s \in Pointers, p \in Pointers :
          remote = [latest |-> n, rules |-> [v \in 1..n |-> TreeOf("old", <<>>)],
                    stagingVersion |-> s, productionVersion |-> p]
    /\ property = NoProperty
    /\ pc = "idle"
    /\ call = NoCall
    /\ requests = <<>>
    /\ result = NoResult
    /\ calls = 0
    /\ oldRules = <<>> /\ newRules = <<>> /\ given = <<>> /\ merged = NotCalled

PromoteSpec == PromoteInit /\ [][PromoteNext]_vars

(***************************************************************************)
(* Claims about update.                                                    *)
(***************************************************************************)
IsResolution(q) == q.kind \in {"rule-formats", "find-by-value", "property"}
IsCopy(q) == q.kind = "versions" /\ q.method = "POST"
IsFetch(q) == q.kind = "rules" /\ q.method = "GET"
IsPut(q) == q.kind = "rules" /\ q.method = "PUT"

\* the places of the requests of each kind in the log of the call
Copies == {i \in DOMAIN requests : IsCopy(requests[i])}
Fetches == {i \in DOMAIN requests : IsFetch(requests[i])}
Puts == {i \in DOMAIN requests : IsPut(requests[i])}

\* the version the copy step of the call created on the service
Created == Named(call.newVersionId)

\* C6: update resolves the record, obtains the target version, fetches the
\* rule tree of that version, reconciles it (old = the fetched tree, new =
\* the tree the caller gave) and then puts the reconciled tree, in this
\* order; when the reconciliation fails the call is rejected and no PUT of
\* rules is sent.
C6_UpdateOrder ==
    call.op = "update" =>
      /\ Cardinality(Copies) <= 1
      /\ Cardinality(Fetches) <= 1
      /\ Cardinality(Puts) <= 1
      /\ \A c \in Copies : \A i \in 1..(c - 1) : IsResolution(requests[i])
      /\ \A g \in Fetches :
            /\ \E c \in Copies : c < g
            /\ requests[g].version = call.newVersionId
      /\ merged.called =>
            /\ \E g \in Fetches : requests[g].response.status = "ok"
            /\ oldRules = call.fetched.rules
            /\ given = call.passed.rules
      /\ \A p \in Puts :
            /\ \E g \in Fetches : g < p
            /\ merged.called /\ ~merged.threw
            /\ requests[p].body.rules =
                  mergeAdvancedUUIDRules(call.fetched.rules, call.passed.rules).rules
      /\ (merged.called /\ merged.threw) =>
            result.state = "rejected" /\ Puts = {}

\* an update that put a tree which took a uuid from the fetched tree
C6_Witness ==
    /\ call.op = "update"
    /\ result.state = "resolved"
    /\ Puts # {}
    /\ newRules # given

\* C7: the version update writes rules into did not exist before the call:
\* it is the version its own copy step created; and after a successful
\* update the latestVersion of the property object names that version.
C7_WritesOwnVersion ==
    call.op = "update" =>
      /\ \A p \in Puts :
            /\ Named(requests[p].version) \notin 1..call.existed
            /\ Named(requests[p].version) = Created
            /\ \E c \in Copies :
                  c < p /\ requests[c].response.status = "created"
      /\ result.state = "resolved" =>
            /\ Named(Held(Current).latestVersion) = Created
            /\ cache.byId # {} => Named(property.latestVersion) = Created

\* a successful update of a property that had versions before
C7_Witness ==
    /\ call.op = "update"
    /\ result.state = "resolved"
    /\ call.existed >= 1
    /\ Created = call.existed + 1
    /\ remote.rules[Created] = call.doc.rules

(***************************************************************************)
(* Claims about the submission phase of activate.                          *)
(***************************************************************************)
\* the activation requests of the call, in the order they were sent
Submitted == SelectSeq(requests, IsSubmission)

ReportsWarnings(q) == q.response.status = "warnings-not-acknowledged"
WarningIdsOf(q) == {q.response.warnings[k].messageId : k \in DOMAIN q.response.warnings}

\* C8: when the answer to an activation request reports unacknowledged
\* warnings, activate resubmits once, with every reported warning id; when
\* the answer to that resubmission reports another set of unacknowledged
\* warnings the activation fails and nothing is submitted again.
C8_SingleResubmission ==
    call.op = "activate" =>
      /\ Len(Submitted) <= 2
      /\ (/\ Len(Submitted) = 2
          /\ ReportsWarnings(Submitted[1])
          /\ ReportsWarnings(Submitted[2])
          /\ WarningIdsOf(Submitted[2]) # WarningIdsOf(Submitted[1]))
         => result.state = "rejected"

\* C9: the first activation request of a call has an empty acknowledgeWarnings
\* list and asks for the version and network of the call; every resubmission
\* follows an answer that reported warnings and is the same request with
\* acknowledgeWarnings equal to the message ids of the warnings of that
\* answer, in their order.
C9_ResubmissionAcknowledges ==
    call.op = "activate" =>
      \A i \in DOMAIN Submitted :
        LET q == Submitted[i]
        IN  /\ q.body.propertyVersion = call.activationVersion
            /\ q.body.network = call.network
            /\ q.body.note = call.notes
            /\ q.body.notifyEmails = call.email
            /\ i = 1 => q.body.acknowledgeWarnings = <<>>
            /\ i > 1 =>
                 LET before == Submitted[i - 1]
                 IN  /\ ReportsWarnings(before)
                     /\ q.body.propertyVersion = before.body.propertyVersion
                     /\ q.body.network = before.body.network
                     /\ q.body.note = before.body.note
                     /\ q.body.notifyEmails = before.body.notifyEmails
                     /\ q.body.acknowledgeWarnings =
                          [k \in DOMAIN before.response.warnings |->
                             before.response.warnings[k].messageId]

\* a resubmission that acknowledges two warnings in the order of the answer
C9_Witness ==
    /\ call.op = "activate"
    /\ Len(Submitted) >= 2
    /\ Submitted[1].body.acknowledgeWarnings = <<>>
    /\ Submitted[2].body.acknowledgeWarnings = <<"w2", "w1">>

\* C10: the number of activation requests of one call is bounded by a retry
\* ceiling: a call that has sent as many requests as are followed here, the
\* last one answered with warnings again, is not about to submit once more.
C10_RetryCeiling ==
    (call.op = "activate" /\ Len(Submitted) = MaxSubmissions)
      => ~(pc = "activate:submit" /\ ReportsWarnings(Submitted[MaxSubmissions]))

(***************************************************************************)
(* Claims about the polling phase of activate.                             *)
(***************************************************************************)
IsSleep(q) == q.kind = "sleep"
IsPollOrSleep(q) == IsPoll(q) \/ IsSleep(q)

\* the polls of the call, and the polls and waits, in the order they happened
Polled == SelectSeq(requests, IsPoll)
PolledAndSlept == SelectSeq(requests, IsPollOrSleep)

\* the statuses a poll was answered with (200 answers only)
Statuses(q) == q.response.warnings
AllActive(q) ==
    /\ q.response.status = "200"
    /\ Statuses(q) # <<>>
    /\ \A k \in DOMAIN Statuses(q) : Statuses(q)[k] = "ACTIVE"

ResolvedTrue == result = [state |-> "resolved", value |-> "true"]

\* C11: with wait, activate resolves to true only after a poll answer in
\* which every item is ACTIVE, and no poll before that one had such an
\* answer; consecutive polls are separated by one wait of 30 units (30000
\* ms); when the polls are answered PENDING, PENDING, ACTIVE there are
\* exactly three polls and the call resolves to true after the third.
C11_PollUntilActive ==
    (call.op = "activate" /\ call.wait) =>
      /\ ResolvedTrue =>
            /\ Polled # <<>>
            /\ AllActive(Polled[Len(Polled)])
      /\ \A i \in 1..(Len(Polled) - 1) : ~AllActive(Polled[i])
      /\ \A i \in DOMAIN PolledAndSlept :
            IF i % 2 = 1 THEN IsPoll(PolledAndSlept[i])
            ELSE IsSleep(PolledAndSlept[i]) /\ PolledAndSlept[i].body.ms = 30000
      /\ (/\ Len(Polled) >= 3
          /\ Polled[1].response = [status |-> "200", warnings |-> <<"PENDING">>]
          /\ Polled[2].response = [status |-> "200", warnings |-> <<"PENDING">>]
          /\ Polled[3].response = [status |-> "200", warnings |-> <<"ACTIVE">>])
         => Len(Polled) = 3 /\ ResolvedTrue /\ pc = "idle"

\* the polls were answered PENDING, PENDING, ACTIVE and the call resolved to true
C11_Witness ==
    /\ call.op = "activate" /\ call.wait
    /\ Len(Polled) = 3
    /\ Polled[1].response.warnings = <<"PENDING">>
    /\ Polled[2].response.warnings = <<"PENDING">>
    /\ Polled[3].response.warnings = <<"ACTIVE">>
    /\ Len(PolledAndSlept) = 5
    /\ ResolvedTrue

\* C12: when a poll answer reports a terminal status that is not ACTIVE
\* (FAILED, ABORTED) the polling stops: the call is rejected with the
\* answer and no wait or poll follows.
C12_TerminalStatusFails ==
    call.op = "activate" =>
      \A i \in DOMAIN Polled :
        (/\ Polled[i].response.status = "200"
         /\ \E k \in DOMAIN Statuses(Polled[i]) :
               Statuses(Polled[i])[k] \in {"FAILED", "ABORTED"})
        => /\ i = Len(Polled)
           /\ result = [state |-> "rejected", value |-> "data"]
           /\ ~IsSleep(requests[Len(requests)])

\* C13: a poll answered with HTTP status 500 does not fail the call: a wait
\* of the inter-poll delay follows it, the call is still polling, and every
\* poll of the call asks for the same activation.
C13_ServerErrorIsPending ==
    call.op = "activate" =>
      /\ \A i \in DOMAIN requests :
           (IsPoll(requests[i]) /\ requests[i].response.status = "500") =>
              /\ i < Len(requests)
              /\ requests[i + 1] = Sleep
              /\ i + 1 = Len(requests) => pc = "activate:poll" /\ result = Pending
      /\ \A i \in DOMAIN Polled : Polled[i].body.activationID = call.activationId

\* two polls answered 500, then one answered ACTIVE
C13_Witness ==
    /\ call.op = "activate"
    /\ Len(Polled) = 3
    /\ Polled[1].response.status = "500"
    /\ Polled[2].response.status = "500"
    /\ ResolvedTrue

(***************************************************************************)
(* Claims about the version activate asks for and the pointers it keeps.   *)
(***************************************************************************)
\* the pointer of the object the call resolved that the version argument selects
Selected(version) ==
    CASE version = LATEST_VERSION.LATEST -> Held(Current).latestVersion
      [] version = LATEST_VERSION.STAGING -> Held(Current).stagingVersion
      [] version = LATEST_VERSION.PRODUCTION -> Held(Current).productionVersion
      [] OTHER -> version

\* C16: the activation request names the version given to activate when
\* it is positive, and otherwise the pointer of the resolved object that the
\* argument selects: latestVersion for LATEST, stagingVersion for STAGING,
\* productionVersion for PRODUCTION.
C16_VersionSelection ==
    call.op = "activate" =>
      \A i \in DOMAIN Submitted :
        Submitted[i].body.propertyVersion =
          IF call.version.v > 0 THEN call.version ELSE Selected(call.version)

\* an accepted request for the staging version, which is not the latest one
C16_Witness ==
    /\ call.op = "activate"
    /\ call.version = LATEST_VERSION.STAGING
    /\ Submitted # <<>>
    /\ Submitted[1].body.propertyVersion = Num(1)
    /\ Held(Current).latestVersion = Num(2)
    /\ result.state = "resolved"

PointerOf(network) == IF network = "STAGING" THEN "stagingVersion" ELSE "productionVersion"
OtherPointerOf(network) == IF network = "STAGING" THEN "productionVersion" ELSE "stagingVersion"

\* C17: after activate has succeeded for version v on a network, the object
\* the cache holds has v as the pointer of that network, and its other
\* pointer and its latestVersion are as they were (here: as the service gave
\* them); after an accepted deactivation the pointer of the network is null.
C17_CachedPointers ==
    (call.op \in {"activate", "deactivate"} /\ result.state = "resolved"
       /\ call.activationId # "" /\ cache.byId # {}) =>
      /\ property[PointerOf(call.network)] =
            IF call.op = "activate" THEN call.activationVersion ELSE Null
      /\ property[OtherPointerOf(call.network)] =
            Snapshot(remote)[OtherPointerOf(call.network)]
      /\ property.latestVersion = Snapshot(remote).latestVersion

(***************************************************************************)
(* Claims about createNewPropertyVersion.                                  *)
(***************************************************************************)
\* the answer to the copy request of the call, "" when none was sent
CopyAnswer == IF Copies = {} THEN "" ELSE requests[CHOOSE i \in Copies : TRUE].response.status

\* C18: createNewPropertyVersion resolves only when the service has
\* created the version and with its number; every other answer to the copy
\* request, 404 included, rejects.
C18_CopyFailureSurfaces ==
    (call.op = "create" /\ pc = "idle" /\ Copies # {}) =>
      IF CopyAnswer = "created"
      THEN result.state = "resolved" /\ result.value = ToString(remote.latest)
      ELSE result.state = "rejected"

\* C19: after createNewPropertyVersion has succeeded, the copy was asked
\* from the latestVersion the object had before the call, and the object's
\* latestVersion is that version plus one and is the number of the version
\* the service created (success being the case where it created one).
C19_LatestVersionAfterCreate ==
    (call.op = "create" /\ result.state = "resolved" /\ CopyAnswer = "created") =>
      /\ Named(call.fromVersion) > 0
      /\ requests[CHOOSE i \in Copies : TRUE].body.createFromVersion = call.fromVersion
      /\ Named(Held(Current).latestVersion) = Named(call.fromVersion) + 1
      /\ Named(Held(Current).latestVersion) = Named(call.newVersionId)

(***************************************************************************)
(* Claims about the resolution of a property object.                       *)
(***************************************************************************)
\* a call starts with the property object as its lookup
StartsWithRecord == pc = "idle" /\ calls' = calls + 1 /\ call'.lookup.record

\* C20: the resolution of a property object that has its ids gives the
\* object back as it is, sends no request and leaves the two indexes and
\* the initialization flag of the cache as they are; so does the second
\* resolution of the object, the one of the copy.
C20_RecordPassthrough ==
    [][/\ StartsWithRecord =>
            /\ cache' = cache
            /\ requests' = <<>>
            /\ result' = Pending
            /\ IF cache.byId = {}
               THEN call'.detached /\ call'.own \in Records
               ELSE ~call'.detached /\ property' = property
       /\ pc = "create:copy" =>
            /\ cache' = cache
            /\ Len(requests') = Len(requests) + 1
            /\ SubSeq(requests', 1, Len(requests)) = requests
            /\ IsCopy(requests'[Len(requests')])]_vars

\* a call given the object the cache holds has created a version
C20_Witness ==
    /\ call.op = "create"
    /\ call.lookup.record
    /\ cache.byId # {}
    /\ ~cache.initComplete
    /\ requests # <<>> /\ \A i \in DOMAIN requests : IsCopy(requests[i])
    /\ result.state = "resolved"

(***************************************************************************)
(* Claims about deactivate and promoteStagingToProd.                       *)
(***************************************************************************)
\* C14: a deactivation the service answers with the error
\* 'property_version_not_active' resolves, whatever the status of the answer
\* is (400 included), and no poll follows.
C14_NotActiveResolves ==
    (call.op = "deactivate" /\ Submitted # <<>>
       /\ NotActive(Submitted[Len(Submitted)].response.status)) =>
      /\ result.state = "resolved"
      /\ Polled = <<>>

\* C15: promoteStagingToProd, for a property object whose stagingVersion
\* is set and is not its productionVersion, asks for the activation of that
\* stagingVersion, and of no other version, on PRODUCTION.
C15_PromotesStagingVersion ==
    call.op = "promote" =>
      \A i \in DOMAIN Submitted :
        /\ Submitted[i].body.network = "PRODUCTION"
        /\ Submitted[i].body.propertyVersion = Held(Current).stagingVersion

(***************************************************************************)
(* Part 3.  The lookup tables with their entries.  Keys and names are      *)
(* strings, held as sequences of characters; _propertyById,                *)
(* _propertyByName and _propertyByHost are functions from keys to property *)
(* objects.  A call is one step: its requests and their answers, which are *)
(* an input of the step, are written to the log in the order they are sent.*)
(***************************************************************************)
MaxTableCalls == 3   \* calls started in one behaviour

\* \w of a regular expression
WordCharacters ==
    {"a", "b", "c", "d", "e", "f", "g", "h", "i", "j", "k", "l", "m",
     "n", "o", "p", "q", "r", "s", "t", "u", "v", "w", "x", "y", "z",
     "A", "B", "C", "D", "E", "F", "G", "H", "I", "J", "K", "L", "M",
     "N", "O", "P", "Q", "R", "S", "T", "U", "V", "W", "X", "Y", "Z",
     "0", "1", "2", "3", "4", "5", "6", "7", "8", "9", "_"}

\* replace(/[^\w]/gi, '_')
SanitizeWordOnly(s) == [i \in DOMAIN s |-> IF s[i] \in WordCharacters THEN s[i] ELSE "_"]

\* replace(/[^\w.-]/gi, '_')
Sanitize(s) ==
    [i \in DOMAIN s |-> IF s[i] \in WordCharacters \cup {".", "-"} THEN s[i] ELSE "_"]

\* the strings of the model
Prp1 == <<"p", "r", "p", "_", "1">>
Prp2 == <<"p", "r", "p", "_", "2">>
MyExampleCom == <<"m", "y", " ", "e", "x", "a", "m", "p", "l", "e", ".", "c", "o", "m">>
My_Example_Com == <<"m", "y", "_", "e", "x", "a", "m", "p", "l", "e", ".", "c", "o", "m">>
PrpHost == <<"p", "r", "p", "_", "h", ".", "c">>
PrpSpace == <<"p", "r", "p", " ", "1">>
Unknown == <<"x", "/", "y">>
HostOnly == <<"h", ".", "c">>

\* what callers pass as the key
TableKeys == {Prp1, MyExampleCom, My_Example_Com, PrpHost, PrpSpace, Unknown, HostOnly}

\* the properties the service has, each in its group and contract; the
\* second is named like the id of the first
Property1 ==
    [propertyId |-> Prp1, propertyName |-> MyExampleCom,
     groupId |-> "grp_1", contractId |-> "ctr_1"]
Property2 ==
    [propertyId |-> Prp2, propertyName |-> Prp1,
     groupId |-> "grp_2", contractId |-> "ctr_2"]
ServiceProperties == {Property1, Property2}

\* groups.items of GET /papi/v1/groups, as the pairs _initPropertyCache makes
GroupContractList ==
    <<[contractId |-> "ctr_1", groupId |-> "grp_1"],
      [contractId |-> "ctr_2", groupId |-> "grp_2"]>>

\* no property object (undefined)
NoObject == [propertyId |-> <<>>, propertyName |-> <<>>, groupId |-> "", contractId |-> ""]

EmptyTable == <<>>
Put(table, k, v) == [x \in DOMAIN table \cup {k} |-> IF x = k THEN v ELSE table[x]]
Get(table, k) == IF k \in DOMAIN table THEN table[k] ELSE NoObject

\* propertyLookup.match('prp_')
RECURSIVE HasPrp(_)
HasPrp(s) ==
    IF Len(s) < 4 THEN FALSE
    ELSE SubSeq(s, 1, 4) = <<"p", "r", "p", "_">> \/ HasPrp(Tail(s))

\* _init() that looks at the flag only
InitByFlagOnly(c, formats) ==
    IF c.initComplete
    THEN [status |-> "ok", cache |-> c, reqs |-> <<>>]
    ELSE [status |-> IF formats = "ok" THEN "ok" ELSE "rejected",
          cache |-> c,
          reqs |-> <<Request("rule-formats", "GET", Null, NoBody, Response(formats))>>]

\* _init() on the tables
InitTables(c, formats) ==
    IF c.initComplete
    THEN [status |-> "ok", cache |-> c, reqs |-> <<>>]
    ELSE IF DOMAIN c.byId # {}
    THEN [status |-> "ok", cache |-> [c EXCEPT !.initComplete = TRUE], reqs |-> <<>>]
    ELSE [status |-> IF formats = "ok" THEN "ok" ELSE "rejected",
          cache |-> c,
          reqs |-> <<Request("rule-formats", "GET", Null, NoBody, Response(formats))>>]

\* the host entry's side first, whatever the two other tables hold
HostFirst(c, key, env) ==
    IF key \in DOMAIN c.byHost
    THEN IF env = LATEST_VERSION.STAGING THEN c.byHost[key].staging
         ELSE c.byHost[key].production
    ELSE IF key \in DOMAIN c.byId THEN c.byId[key]
    ELSE Get(c.byName, key)

\* this._propertyById[key] || this._propertyByName[key], then the side of
\* this._propertyByHost[key] that hostnameEnvironment selects
TableLookup(c, key, env) ==
    IF key \in DOMAIN c.byId THEN c.byId[key]
    ELSE IF key \in DOMAIN c.byName THEN c.byName[key]
    ELSE IF key \in DOMAIN c.byHost
    THEN IF env = LATEST_VERSION.STAGING THEN c.byHost[key].staging
         ELSE c.byHost[key].production
    ELSE NoObject

\* the answers to the searches of _findProperty and to _getPropertyMetadata:
\* which search is the first not to be empty (or fails), the property it
\* names, and whether the metadata request is answered
NoSearch == [search |-> "miss", names |-> Property1, metadata |-> "ok"]
SearchAnswers ==
    {[NoSearch EXCEPT !.search = s] : s \in {"miss", "err1", "err2", "err3"}}
    \cup [search : {"hit1", "hit2", "hit3"}, names : ServiceProperties,
          metadata : {"ok", "silent"}]

SearchValue(by, key, status) ==
    Request("find-by-value", "POST", Null, [by |-> by, value |-> key], Response(status))

\* a search that finds nothing gives its caller an empty object
FindOrNothing(c, key, ans) ==
    [status |-> IF ans.search \in {"err1", "err2", "err3"} THEN "rejected" ELSE "ok",
     cache |-> c,
     reqs |-> <<SearchValue("propertyName", key,
                            IF ans.search = "hit1" THEN "found" ELSE "empty")>>,
     prop |-> IF ans.search = "miss" THEN NoObject ELSE ans.names]

\* _findProperty(propertyLookup) on the tables
FindByValue(c, key, ans) ==
    LET s1(r) == <<SearchValue("propertyName", key, r)>>
        s2(r) == s1("empty") \o <<SearchValue("hostname", key, r)>>
        s3(r) == s2("empty") \o <<SearchValue("edgeHostname", key, r)>>
        searches ==
            CASE ans.search = "hit1" -> s1("found")
              [] ans.search = "hit2" -> s2("found")
              [] ans.search = "hit3" -> s3("found")
              [] ans.search = "miss" -> s3("empty")
              [] ans.search = "err1" -> s1("error")
              [] ans.search = "err2" -> s2("error")
              [] ans.search = "err3" -> s3("error")
        metadata(r) == Request("property", "GET", Null, [propertyId |-> ans.names.propertyId],
                               Response(r))
    IN  IF ans.search \in {"err1", "err2", "err3"}
        THEN [status |-> "rejected", cache |-> c, reqs |-> searches, prop |-> NoObject]
        ELSE IF ans.search = "miss"
        THEN [status |-> "none", cache |-> c, reqs |-> searches, prop |-> NoObject]
        ELSE IF ans.metadata = "silent"
        THEN [status |-> "hung", cache |-> c, reqs |-> Append(searches, metadata("silent")),
              prop |-> NoObject]
        ELSE [status |-> "ok",
              cache |-> [c EXCEPT !.byName = Put(@, ans.names.propertyName, ans.names),
                                  !.byId = Put(@, ans.names.propertyId, ans.names)],
              reqs |-> Append(searches, metadata("ok")),
              prop |-> ans.names]

\* lookupPropertyIdFromHost(hostname, env), which is _getProperty(hostname,
\* env) for a string: the outcome, the tables and the requests sent
lookupPropertyIdFromHost(c, hostname, env, formats, ans) ==
    LET propertyLookup == Sanitize(hostname)
        init == InitTables(c, formats)
        prop == TableLookup(init.cache, propertyLookup, env)
        found == FindByValue(init.cache, propertyLookup, ans)
        again == TableLookup(found.cache, propertyLookup, env)
    IN  IF init.status # "ok"
        THEN [status |-> "rejected", error |-> "response", cache |-> init.cache,
              reqs |-> init.reqs, prop |-> NoObject]
        ELSE IF prop # NoObject
        THEN [status |-> "ok", error |-> "", cache |-> init.cache, reqs |-> init.reqs,
              prop |-> prop]
        ELSE IF ~HasPrp(propertyLookup)
        THEN [status |-> "rejected", error |-> "Cannot find property",
              cache |-> init.cache, reqs |-> init.reqs, prop |-> NoObject]
        ELSE IF found.status \in {"rejected", "hung"}
        THEN [status |-> found.status, error |-> IF found.status = "rejected" THEN "response" ELSE "",
              cache |-> found.cache, reqs |-> init.reqs \o found.reqs, prop |-> NoObject]
        ELSE IF found.status = "ok"
        THEN [status |-> "ok", error |-> "", cache |-> found.cache,
              reqs |-> init.reqs \o found.reqs, prop |-> found.prop]
        ELSE IF again # NoObject
        THEN [status |-> "ok", error |-> "", cache |-> found.cache,
              reqs |-> init.reqs \o found.reqs, prop |-> again]
        ELSE [status |-> "rejected", error |-> "Cannot find property",
              cache |-> found.cache, reqs |-> init.reqs \o found.reqs, prop |-> NoObject]

\* the answers to GET /papi/v1/groups and to GET /papi/v1/properties
GroupAnswers == {"ok", "none", "error"}
ListAnswers == {"ok", "403", "none", "error"}

GroupsRequest(fallThrough, answer) ==
    Request("groups", "GET", Null, [fallThrough |-> fallThrough], Response(answer))

\* _getGroupList(): without a response the callback starts
\* _getGroupList(1) and returns its promise to the sender, so the promise
\* of the first call is neither resolved nor rejected
_getGroupList(answer, retry) ==
    CASE answer = "ok" -> [status |-> "ok", reqs |-> <<GroupsRequest(FALSE, "ok")>>]
      [] answer = "none" ->
            [status |-> "hung",
             reqs |-> <<GroupsRequest(FALSE, "none"), GroupsRequest(TRUE, retry)>>]
      [] OTHER -> [status |-> "rejected", reqs |-> <<GroupsRequest(FALSE, answer)>>]

\* properties.items of the service for each pair of GroupContractList
PropertyLists == <<<<Property1>>, <<Property2>>>>

\* a 403 rejects like any other error
ListOutcomeStrict(answer) ==
    CASE answer = "ok" -> "items"
      [] answer = "none" -> "pending"
      [] OTHER -> "rejected"

\* what the promise of _getPropertyList does with the answer
ListOutcome(answer) ==
    CASE answer = "ok" -> "items"
      [] answer = "403" -> "null"
      [] answer = "none" -> "pending"
      [] OTHER -> "rejected"

_getPropertyList(pair, answer) == Request("properties", "GET", Null, pair, Response(answer))

\* the body of items.map of _initPropertyCache, item after item
RECURSIVE IndexItems(_, _)
IndexItems(c, items) ==
    IF items = <<>> THEN c
    ELSE LET item == [Head(items) EXCEPT !.propertyName = Sanitize(@)]
         IN  IndexItems([c EXCEPT !.byName = Put(@, item.propertyName, item),
                                  !.byId = Put(@, item.propertyId, item)],
                        Tail(items))

\* propList.map of _initPropertyCache: a list that is null is passed over
RECURSIVE IndexLists(_, _, _)
IndexLists(c, lists, answers) ==
    IF lists = <<>> THEN c
    ELSE IndexLists(IF ListOutcome(Head(answers)) = "items" THEN IndexItems(c, Head(lists))
                    ELSE c,
                    Tail(lists), Tail(answers))

\* _initPropertyCache(propertyLookup): the group list, then Promise.all of
\* the property lists of every pair, then the indexing
_initPropertyCache(c, groups, retry, answers) ==
    LET g == _getGroupList(groups, retry)
        lists == [i \in DOMAIN GroupContractList |->
                    _getPropertyList(GroupContractList[i], answers[i])]
        outcomes == {ListOutcome(answers[i]) : i \in DOMAIN answers}
    IN  IF g.status # "ok" THEN [status |-> g.status, cache |-> c, reqs |-> g.reqs]
        ELSE IF "rejected" \in outcomes
        THEN [status |-> "rejected", cache |-> c, reqs |-> g.reqs \o lists]
        ELSE IF "pending" \in outcomes
        THEN [status |-> "hung", cache |-> c, reqs |-> g.reqs \o lists]
        ELSE [status |-> "ok", cache |-> IndexLists(c, PropertyLists, answers),
              reqs |-> g.reqs \o lists]

(***************************************************************************)
(* The engine whose callers resolve keys, call _init and                   *)
(* _initPropertyCache themselves and empty the tables.                     *)
(***************************************************************************)
\* _propertyByHost, which no method writes: empty, or filled by the caller
HostTable ==
    Put(Put(EmptyTable, HostOnly, [staging |-> Property1, production |-> Property2]),
        My_Example_Com, [staging |-> Property2, production |-> Property2])
HostTables == {EmptyTable, HostTable}

Environments == {LATEST_VERSION.STAGING, LATEST_VERSION.PRODUCTION}

NoTableCall ==
    [op |-> "none", key |-> <<>>, env |-> Null, lookup |-> <<>>,
     before |-> [initComplete |-> FALSE, byId |-> EmptyTable, byName |-> EmptyTable,
                 byHost |-> EmptyTable],
     returned |-> NoObject, error |-> ""]

TableInit ==
    /\ cache \in [initComplete : BOOLEAN, byId : {EmptyTable}, byName : {EmptyTable},
                  byHost : HostTables]
    /\ remote = [properties |-> ServiceProperties]
    /\ property = NoProperty
    /\ pc = "idle"
    /\ call = NoTableCall
    /\ requests = <<>>
    /\ result = NoResult
    /\ calls = 0
    /\ oldRules = <<>> /\ newRules = <<>> /\ given = <<>> /\ merged = NotCalled

\* the answers a call asks for: those it does not ask for are not inputs,
\* and the search by propertyName finds a property of that name only
FormatsAsked(c) ==
    IF ~c.initComplete /\ DOMAIN c.byId = {} THEN {"ok", "fail"} ELSE {"ok"}
SearchesAsked(c, key, env, formats) ==
    IF /\ formats = "ok"
       /\ TableLookup(c, Sanitize(key), env) = NoObject
       /\ HasPrp(Sanitize(key))
    THEN {a \in SearchAnswers :
            a.search = "hit1" => a.names.propertyName = Sanitize(key)}
    ELSE {NoSearch}

\* how a call of this part ends: a promise that is never settled leaves the
\* engine free for the next call
TableSettle(status, error) ==
    /\ result' = [state |-> CASE status = "ok" -> "resolved"
                              [] status = "hung" -> "pending"
                              [] OTHER -> "rejected",
                  value |-> error]
    /\ pc' = "idle"
    /\ calls' = calls + 1
    /\ UNCHANGED <<remote, property>>
    /\ MergeUnchanged

\* a call of lookupPropertyIdFromHost(hostname, env)
TableResolve ==
    /\ pc = "idle"
    /\ calls < MaxTableCalls
    /\ \E key \in TableKeys, env \in Environments :
        \E formats \in FormatsAsked(cache) :
        \E ans \in SearchesAsked(cache, key, env, formats) :
          LET r == lookupPropertyIdFromHost(cache, key, env, formats, ans)
          IN  /\ cache' = r.cache
              /\ requests' = r.reqs
              /\ call' = [NoTableCall EXCEPT
                            !.op = "resolve", !.key = key, !.env = env,
                            !.lookup = Sanitize(key), !.before = cache,
                            !.returned = r.prop, !.error = r.error]
              /\ TableSettle(r.status, r.error)

\* a call of _init()
TableInitCall ==
    /\ pc = "idle"
    /\ calls < MaxTableCalls
    /\ \E formats \in FormatsAsked(cache) :
          LET r == InitTables(cache, formats)
          IN  /\ cache' = r.cache
              /\ requests' = r.reqs
              /\ call' = [NoTableCall EXCEPT !.op = "_init", !.before = cache]
              /\ TableSettle(r.status, IF r.status = "ok" THEN "" ELSE "response")

\* a call of _initPropertyCache(propertyLookup)
TableEnumerate ==
    /\ pc = "idle"
    /\ calls < MaxTableCalls
    /\ \E groups \in GroupAnswers :
        \E retry \in (IF groups = "none" THEN GroupAnswers ELSE {"ok"}) :
        \E answers \in (IF groups = "ok" THEN [DOMAIN GroupContractList -> ListAnswers]
                        ELSE {[i \in DOMAIN GroupContractList |-> "ok"]}) :
          LET r == _initPropertyCache(cache, groups, retry, answers)
          IN  /\ cache' = r.cache
              /\ requests' = r.reqs
              /\ call' = [NoTableCall EXCEPT !.op = "_initPropertyCache", !.before = cache]
              /\ TableSettle(r.status, IF r.status = "rejected" THEN "response" ELSE "")

\* the caller empties the tables, and may reset the flag with them
TableEmpty ==
    /\ pc = "idle"
    /\ calls < MaxTableCalls
    /\ DOMAIN cache.byId # {}
    /\ \E flag \in {cache.initComplete, FALSE} :
          cache' = [cache EXCEPT !.byId = EmptyTable, !.byName = EmptyTable,
                                 !.initComplete = flag]
    /\ call' = [NoTableCall EXCEPT !.op = "empty", !.before = cache]
    /\ requests' = <<>>
    /\ TableSettle("ok", "")

TableNext == TableResolve \/ TableInitCall \/ TableEnumerate \/ TableEmpty

TableSpec == TableInit /\ [][TableNext]_vars

(***************************************************************************)
(* deleteProperty(propertyLookup)                                          *)
(***************************************************************************)
\* the answers to DELETE /papi/v1/properties/{propertyId}; without a
\* response the callback throws on response.body and nothing settles
DeleteAnswers == {"ok", "error", "none"}

\* _deleteConfig(property) on the properties of the service
_deleteConfig(properties, prop, answer) ==
    [status |-> CASE answer = "ok" -> "ok"
                  [] answer = "none" -> "hung"
                  [] OTHER -> "rejected",
     properties |-> IF answer = "ok"
                    THEN {p \in properties : p.propertyId # prop.propertyId}
                    ELSE properties,
     reqs |-> <<Request("delete", "DELETE", Null, [propertyId |-> prop.propertyId],
                        Response(answer))>>]

\* deleteProperty(propertyLookup), r being what its _getProperty gave: then
\* _deleteConfig; the tables are those _getProperty left
deleteProperty(r, properties, answer) ==
    LET d == _deleteConfig(properties, r.prop, answer)
    IN  IF r.status # "ok"
        THEN [status |-> r.status, error |-> r.error, cache |-> r.cache, reqs |-> r.reqs,
              prop |-> NoObject, properties |-> properties]
        ELSE [status |-> d.status, error |-> IF d.status = "rejected" THEN "response" ELSE "",
              cache |-> r.cache, reqs |-> r.reqs \o d.reqs, prop |-> r.prop,
              properties |-> d.properties]

\* a call of deleteProperty(propertyLookup)
TableDelete ==
    /\ pc = "idle"
    /\ calls < MaxTableCalls
    /\ \E key \in TableKeys :
        \E formats \in FormatsAsked(cache) :
        \E ans \in SearchesAsked(cache, key, LATEST_VERSION.STAGING, formats) :
        \E answer \in DeleteAnswers :
          LET r == deleteProperty(lookupPropertyIdFromHost(cache, key, LATEST_VERSION.STAGING,
                                                           formats, ans),
                                  remote.properties, answer)
          IN  /\ cache' = r.cache
              /\ requests' = r.reqs
              /\ remote' = [remote EXCEPT !.properties = r.properties]
              /\ call' = [NoTableCall EXCEPT
                            !.op = "delete", !.key = key, !.env = LATEST_VERSION.STAGING,
                            !.lookup = Sanitize(key), !.before = cache,
                            !.returned = r.prop, !.error = r.error]
              /\ result' = [state |-> CASE r.status = "ok" -> "resolved"
                                        [] r.status = "hung" -> "pending"
                                        [] OTHER -> "rejected",
                            value |-> r.error]
              /\ pc' = "idle"
              /\ calls' = calls + 1
              /\ UNCHANGED property
              /\ MergeUnchanged

\* the engine whose callers fill the tables and delete properties
DeleteNext == TableEnumerate \/ TableDelete

DeleteSpec == TableInit /\ [][DeleteNext]_vars

(***************************************************************************)
(* Claims about the keys and the tables.                                   *)
(***************************************************************************)
\* the characters of [A-Za-z0-9._-]
AllowedCharacters == WordCharacters \cup {".", "-"}

\* the property objects the tables hold
IndexedRecords(c) ==
    {c.byId[k] : k \in DOMAIN c.byId} \cup {c.byName[k] : k \in DOMAIN c.byName}

\* C21: the key looked up is the key given with every character outside
\* [A-Za-z0-9._-] replaced by '_', of the same length and otherwise the same;
\* and the by-name table has an entry for it exactly when it is the sanitized
\* name of a property object the tables hold.
C21_SanitizedKeyAndName ==
    call.op = "resolve" =>
      /\ Len(call.lookup) = Len(call.key)
      /\ \A i \in DOMAIN call.key :
            call.lookup[i] = IF call.key[i] \in AllowedCharacters THEN call.key[i] ELSE "_"
      /\ (call.lookup \in DOMAIN call.before.byName) <=>
            (\E rec \in IndexedRecords(call.before) : Sanitize(rec.propertyName) = call.lookup)

\* "my_example_com"
AllUnderscored == <<"m", "y", "_", "e", "x", "a", "m", "p", "l", "e", "_", "c", "o", "m">>

\* the property list of the first pair was answered with its items
FirstListIndexed ==
    /\ call.op = "_initPropertyCache"
    /\ result.state = "resolved"
    /\ requests[2].response.status = "ok"

\* C22, as stated: the key "my example.com" is looked up, and the name
\* "my example.com" is indexed, as "my_example_com".
C22_DotReplaced ==
    /\ (call.op = "resolve" /\ call.key = MyExampleCom) => call.lookup = AllUnderscored
    /\ FirstListIndexed => AllUnderscored \in DOMAIN cache.byName

\* C22, amended: the key "my example.com" is looked up, and the name
\* "my example.com" is indexed, as "my_example.com"; the key then gives the
\* property object indexed under that name.
C22_DotKept ==
    /\ (call.op = "resolve" /\ call.key = MyExampleCom) =>
          /\ call.lookup = My_Example_Com
          /\ My_Example_Com \in DOMAIN call.before.byName =>
                /\ result.state = "resolved"
                /\ call.returned = call.before.byName[My_Example_Com]
    /\ FirstListIndexed =>
          /\ My_Example_Com \in DOMAIN cache.byName
          /\ cache.byName[My_Example_Com].propertyId = Prp1
          /\ cache.byName[My_Example_Com].propertyName = My_Example_Com
          /\ AllUnderscored \notin DOMAIN cache.byName

\* the key "my example.com" has given the property enumerated under that name
C22_Witness ==
    /\ call.op = "resolve"
    /\ call.key = MyExampleCom
    /\ call.returned.propertyId = Prp1
    /\ call.returned.propertyName = My_Example_Com
    /\ requests = <<>>
    /\ result.state = "resolved"

IsGroups(q) == q.kind = "groups"
IsList(q) == q.kind = "properties"
IsSearch(q) == q.kind = "find-by-value"
Enumerations == {i \in DOMAIN requests : IsGroups(requests[i])}

\* C23: the first resolution of a key with empty tables asks for the
\* groups and for the property lists before it looks the key up, so that the
\* id and the sanitized name of a property of the service give its object.
C23_FirstResolveEnumerates ==
    (call.op = "resolve" /\ DOMAIN call.before.byId = {} /\ result.value # "response") =>
      /\ Enumerations # {}
      /\ \A i \in DOMAIN requests : IsSearch(requests[i]) => \E j \in Enumerations : j < i
      /\ \A p \in ServiceProperties :
            call.lookup \in {p.propertyId, Sanitize(p.propertyName)} =>
              result.state \in {"resolved", "pending"}

FormatsFailed ==
    /\ requests # <<>>
    /\ requests[1].kind = "rule-formats"
    /\ requests[1].response.status = "fail"

Searches == {i \in DOMAIN requests : IsSearch(requests[i])}

\* the side of a host entry that the environment selects
SideOf(host, env) == IF env = LATEST_VERSION.STAGING THEN host.staging ELSE host.production

\* C24: a sanitized key gives the object the by-id table has for it, else
\* the one the by-name table has, else the staging side of its host entry
\* when the environment is STAGING and the production side otherwise; the
\* search is sent only when the three tables have nothing for the key.
C24_LookupOrder ==
    (call.op = "resolve" /\ ~FormatsFailed) =>
      LET c == call.before
          key == call.lookup
          fromTables == result.state = "resolved" /\ Searches = {}
      IN  /\ key \in DOMAIN c.byId => fromTables /\ call.returned = c.byId[key]
          /\ (key \notin DOMAIN c.byId /\ key \in DOMAIN c.byName) =>
                fromTables /\ call.returned = c.byName[key]
          /\ (key \notin DOMAIN c.byId /\ key \notin DOMAIN c.byName
                /\ key \in DOMAIN c.byHost) =>
                fromTables /\ call.returned = SideOf(c.byHost[key], call.env)
          /\ Searches # {} =>
                key \notin DOMAIN c.byId \cup DOMAIN c.byName \cup DOMAIN c.byHost

\* a key that is a name and a host has given the object of the name, which
\* is not the one of the host entry
C24_Witness ==
    /\ call.op = "resolve"
    /\ call.lookup \in DOMAIN call.before.byName
    /\ call.lookup \in DOMAIN call.before.byHost
    /\ call.returned = call.before.byName[call.lookup]
    /\ call.returned # SideOf(call.before.byHost[call.lookup], call.env)
    /\ result.state = "resolved"

\* the searches of the call, in the order they were sent
Searched == SelectSeq(requests, IsSearch)
Criteria == <<"propertyName", "hostname", "edgeHostname">>

\* the call has resolved a key by the search
ResolvedBySearch == call.op = "resolve" /\ result.state = "resolved" /\ Searches # {}

\* C25: the fallback search asks its criteria in a fixed order and stops
\* at the first result that is not empty; the property object derived from it
\* is returned and stored under its id and its name; and the next resolution
\* of the same key sends no search.
C25_SearchOnceThenCached ==
    [][(call'.op = "resolve" /\ calls' = calls + 1) =>
         /\ \A i \in DOMAIN Searched' :
               /\ i <= Len(Criteria)
               /\ Searched'[i].body.by = Criteria[i]
               /\ i < Len(Searched') => Searched'[i].response.status = "empty"
         /\ ResolvedBySearch' =>
               /\ Searched'[Len(Searched')].response.status = "found"
               /\ call'.returned \in ServiceProperties
               /\ cache'.byId[call'.returned.propertyId] = call'.returned
               /\ \E k \in DOMAIN cache'.byName : cache'.byName[k] = call'.returned
         /\ (ResolvedBySearch /\ call'.lookup = call.lookup) => Searches' = {}]_vars

\* the key of the call was in none of the three tables
InNoTable ==
    call.lookup \notin DOMAIN call.before.byId \cup DOMAIN call.before.byName
                       \cup DOMAIN call.before.byHost

\* every search the call sent was answered empty
FoundNothing == \A i \in Searches : requests[i].response.status = "empty"

Populated(c) == DOMAIN c.byId # {} \/ c.initComplete

\* C27: _init on a by-id table that is not empty, or with initialization
\* complete, sends no request, resolves, leaves the three tables as they were
\* and initialization complete; an _init that follows an _init changes
\* nothing more.
C27_InitIdempotent ==
    [][(call'.op = "_init" /\ calls' = calls + 1 /\ Populated(cache)) =>
         /\ requests' = <<>>
         /\ result'.state = "resolved"
         /\ cache' = [cache EXCEPT !.initComplete = TRUE]
         /\ (call.op = "_init" /\ result.state = "resolved") => cache' = cache]_vars

\* C27 witness: _init was called on tables that were filled while the flag
\* was not set, sent nothing and left the tables with the flag set
C27_Witness ==
    /\ call.op = "_init"
    /\ DOMAIN call.before.byId # {}
    /\ ~call.before.initComplete
    /\ requests = <<>>
    /\ cache = [call.before EXCEPT !.initComplete = TRUE]
    /\ result.state = "resolved"

\* C28: the resolution of a key that follows the emptying of filled tables
\* asks for the groups and the property lists again before it looks the key
\* up.
C28_EmptiedReenumerates ==
    [][(call.op = "empty" /\ call'.op = "resolve" /\ calls' = calls + 1) =>
         /\ Enumerations' # {}
         /\ \E i \in DOMAIN requests' : IsList(requests'[i])]_vars

\* the property-list requests of the call, one for each pair, and the pairs
\* whose list was given or refused with a 403
Lists == SelectSeq(requests, IsList)
Answered(status) == {i \in DOMAIN Lists : Lists[i].response.status = status}

\* an item as _initPropertyCache indexes it
Indexed(item) == [item EXCEPT !.propertyName = Sanitize(@)]

\* C29: an enumeration in which some pairs are answered 403 and the others
\* are answered with their list resolves, indexes every property of every
\* list that was given under its id and its sanitized name, and indexes
\* nothing for the pairs that were refused.
C29_ForbiddenPairSkipped ==
    (/\ call.op = "_initPropertyCache"
     /\ Answered("403") # {}
     /\ Answered("403") \cup Answered("ok") = DOMAIN GroupContractList) =>
        /\ result.state = "resolved"
        /\ \A i \in Answered("ok") : \A j \in DOMAIN PropertyLists[i] :
              LET item == Indexed(PropertyLists[i][j])
              IN  /\ Get(cache.byId, item.propertyId) = item
                  /\ Get(cache.byName, item.propertyName) = item
        /\ \A k \in DOMAIN cache.byId \ DOMAIN call.before.byId :
              \E i \in Answered("ok") : \E j \in DOMAIN PropertyLists[i] :
                  PropertyLists[i][j].propertyId = k

\* C29 witness: the first pair was refused with a 403, the second gave its
\* list, the enumeration resolved and only the property of the second pair
\* is in the by-id table
C29_Witness ==
    /\ call.op = "_initPropertyCache"
    /\ Answered("403") = {1} /\ Answered("ok") = {2}
    /\ result.state = "resolved"
    /\ DOMAIN cache.byId = {Prp2}
    /\ cache.byName[Prp1] = Property2

\* the group-list requests of the call, in the order they were sent
Groups == SelectSeq(requests, IsGroups)

\* C30: a group-list request that gets no response is sent once more, and
\* the operation that asked for the groups settles as the second request
\* does: it goes on and resolves when the second is answered with the
\* groups, it rejects when the second fails or gets no response either, and
\* it is never left pending.
C30_RetrySettles ==
    (/\ call.op = "_initPropertyCache"
     /\ Groups # <<>>
     /\ Groups[1].response.status = "none") =>
        /\ Len(Groups) = 2
        /\ result.state = IF Groups[2].response.status = "ok" THEN "resolved"
                          ELSE "rejected"
        /\ result.state # "pending"

\* the ids of the property objects a table holds
IdsOf(table) == {table[k].propertyId : k \in DOMAIN table}

\* C31: an operation of the engine other than deleteProperty takes no
\* property out of the by-id and by-name tables, and a deleteProperty that
\* has resolved leaves no lookup that gives the property it deleted.
C31_LeavesOnlyByDelete ==
    [][/\ (calls' = calls + 1 /\ call'.op \notin {"delete", "empty"}) =>
            /\ IdsOf(cache.byId) \subseteq IdsOf(cache'.byId)
            /\ IdsOf(cache.byName) \subseteq IdsOf(cache'.byName)
       /\ (calls' = calls + 1 /\ call'.op = "delete" /\ result'.state = "resolved") =>
            /\ call'.returned.propertyId \notin IdsOf(cache'.byId) \cup IdsOf(cache'.byName)
            /\ TableLookup(cache', call'.lookup, call'.env) = NoObject]_vars

(***************************************************************************)
(* Claims about the merge of the advanced directives, continued.           *)
(***************************************************************************)
\* the options of the two directives of a match
NewOptions(m) == Deref(given, m.new.advNode).options
OldOptions(m) == Deref(oldRules, m.old.advNode).options

\* C32: the digest under which a directive is grouped is that of its xml,
\* openXml and closeXml concatenated, an absent field being empty, and a new
\* directive is matched to an old one only when the three fields agree.
C32_HashOfThreeFields ==
    merged.called =>
        \A i \in DOMAIN merged.matched :
            LET m == merged.matched[i]
            IN  /\ m.new.md5 = ContentHash(NewOptions(m))
                /\ m.old.md5 = ContentHash(OldOptions(m))
                /\ Field(NewOptions(m).xml) = Field(OldOptions(m).xml)
                /\ Field(NewOptions(m).openXml) = Field(OldOptions(m).openXml)
                /\ Field(NewOptions(m).closeXml) = Field(OldOptions(m).closeXml)

\* C33: mergeAdvancedUUIDRules leaves the uuid of the root rule of newRules
\* as it was, whether the root carries 'default' or no uuid, and copies the
\* uuid of every non-root rule that encloses a matched directive.
C33_RootUuidKept ==
    merged.called =>
        /\ newRules[<<>>].uuid = given[<<>>].uuid
        /\ Returned =>
              \A i \in DOMAIN merged.matched :
                 LET e == merged.matched[i].new.advNode
                 IN  \A k \in 1..Depth(e) : Enclosing(e, k) \in
                        {merged.matched[i].new.parentRules[j] :
                            j \in DOMAIN merged.matched[i].new.parentRules}

\* a directive with the uuid it had in the tree passed in
WithUuidOf(d, e) == [d EXCEPT !.uuid = e.uuid]

\* the rule at p holds or encloses an advanced directive of the tree
EnclosesAdvanced(tree, p) == \E r \in AdvancedOf(tree) : IsPrefix(p, r.rule)

\* the directives of a list are those passed in, in their order, but for the
\* uuid of the advanced ones
ListKept(now, before) ==
    /\ DOMAIN now = DOMAIN before
    /\ \A i \in DOMAIN now :
          /\ WithUuidOf(now[i], before[i]) = before[i]
          /\ before[i].name \notin AdvancedNames => now[i] = before[i]

FrameKept ==
    merged.called =>
        /\ DOMAIN newRules = DOMAIN given
        /\ \A p \in DOMAIN newRules :
              /\ newRules[p].name = given[p].name
              /\ newRules[p].children = given[p].children
              /\ ListKept(newRules[p].behaviors, given[p].behaviors)
              /\ ListKept(newRules[p].criteria, given[p].criteria)
              /\ ~EnclosesAdvanced(given, p) => newRules[p] = given[p]

\* C34: a call of mergeAdvancedUUIDRules, returned or failed, leaves in
\* newRules every name, every options object and the members and order of
\* every children, behaviors and criteria list, the uuid of every directive
\* that is not advanced and the uuid of every rule that encloses no advanced
\* directive; oldRules is as it was.
C34_OnlyUuidsChange == [][FrameKept' /\ oldRules' = oldRules]_vars

\* C34 witness: the call returned and gave an advanced directive another
\* uuid, beside a rule that encloses no advanced directive and holds another
\* directive
C34_Witness ==
    /\ Returned
    /\ \E e \in AdvancedOf(given) : Deref(newRules, e).uuid # Deref(given, e).uuid
    /\ \E p \in DOMAIN given :
          /\ p # <<>>
          /\ ~EnclosesAdvanced(given, p)
          /\ given[p].behaviors # <<>>

\* C35: after a call that returned, every matched directive of newRules has
\* the uuid of the old directive it was matched to, and the rule at each
\* position of its ancestor chain has the uuid of the rule at that position
\* of the old directive's chain, whether or not another directive of newRules
\* is enclosed by the same rule.
C35_ChainsKeptTogether ==
    Returned =>
        \A i \in DOMAIN merged.matched :
            LET m == merged.matched[i]
            IN  /\ Deref(newRules, m.new.advNode).uuid = Deref(oldRules, m.old.advNode).uuid
                /\ Len(m.new.parentRules) = Len(m.old.parentRules)
                /\ \A k \in DOMAIN m.new.parentRules :
                      newRules[m.new.parentRules[k]].uuid = oldRules[m.old.parentRules[k]].uuid

\* C36: a call that throws leaves newRules as it was passed in.
C36_FailureLeavesNewRules ==
    Threw => newRules = given

(***************************************************************************)
(* Claims about what a failed call leaves in the property object.          *)
(***************************************************************************)
\* a poll of the call was answered with every item ACTIVE
ReportedActive == \E i \in DOMAIN Polled : AllActive(Polled[i])

\* C37: the object the cache holds has, after an activate that rejected, the
\* stagingVersion and productionVersion it had before the call (those the
\* service gave), and during or after an activate a pointer differs from
\* them only when a poll of the call has reported the activation ACTIVE.
C37_PointersOnlyWhenActive ==
    (call.op = "activate" /\ cache.byId # {}) =>
      /\ result.state = "rejected" =>
            /\ property.stagingVersion = Snapshot(remote).stagingVersion
            /\ property.productionVersion = Snapshot(remote).productionVersion
      /\ property[PointerOf(call.network)] # Snapshot(remote)[PointerOf(call.network)] =>
            /\ ReportedActive
            /\ property[PointerOf(call.network)] = call.activationVersion

\* C38: after a createNewPropertyVersion that rejected, the latestVersion of
\* the property object is the one it had when the call read it, and it
\* differs from that one only when the service has created the version.
C38_RejectedKeepsLatestVersion ==
    (call.op = "create" /\ pc = "idle" /\ Copies # {}) =>
      /\ result.state = "rejected" => Held(Current).latestVersion = call.fromVersion
      /\ Held(Current).latestVersion # call.fromVersion => CopyAnswer = "created"

(***************************************************************************)
(* Two calls of createNewPropertyVersion in flight on one cached object.   *)
(* A call runs in two turns of the event loop: the continuation of its     *)
(* _getProperty, which reads the version, increments latestVersion and     *)
(* sends the copy request, and the callback of that request.  The service  *)
(* answers the requests in any order.                                      *)
(***************************************************************************)
Callers == {"a", "b"}

\* the cache holds the property object; its latestVersion is the number the
\* service gave or the string an update has left
RaceInit ==
    /\ cache = [initComplete |-> TRUE, byId |-> {PropertyId}, byName |-> {PropertyName}]
    /\ \E n \in 1..InitialVersions, t \in RemoteTrees :
          remote = [latest |-> n, rules |-> [v \in 1..n |-> t],
                    stagingVersion |-> Num(1), productionVersion |-> Null]
    /\ property \in {Snapshot(remote),
                     [Snapshot(remote) EXCEPT !.latestVersion = Str(remote.latest)]}
    /\ pc = [c \in Callers |-> "start"]
    /\ call = [c \in Callers |-> [fromVersion |-> Null, newVersionId |-> Null]]
    /\ requests = <<>>
    /\ result = [c \in Callers |-> NoResult]
    /\ calls = 0
    /\ oldRules = <<>> /\ newRules = <<>> /\ given = <<>> /\ merged = NotCalled

\* the continuation of _getProperty, which gives the cached object: `const
\* version = this._getLatestVersion(property, 0); property.latestVersion +=
\* 1`, and the request of _copyPropertyVersion(property, version) sent
RaceBegin ==
    \E c \in Callers :
      /\ pc[c] = "start"
      /\ LET version == _getLatestVersion(property, Num(0))
         IN  /\ property' = [property EXCEPT !.latestVersion = PlusOne(@)]
             /\ call' = [call EXCEPT ![c] =
                           [fromVersion |-> version, newVersionId |-> Null]]
      /\ pc' = [pc EXCEPT ![c] = "copy"]
      /\ result' = [result EXCEPT ![c] = Pending]
      /\ calls' = calls + 1
      /\ UNCHANGED <<cache, remote, requests>>
      /\ MergeUnchanged

\* the service handles the copy request of a call and the callback of
\* _copyPropertyVersion settles the call
RaceAnswer ==
    \E c \in Callers, answer \in CopyAnswers :
      /\ pc[c] = "copy"
      /\ LET from == Named(call[c].fromVersion)
             req == Request("versions", "POST", Null,
                            [createFromVersion |-> call[c].fromVersion], Response(answer))
             newVersionId == IF answer = "created" THEN Str(remote.latest + 1)
                             ELSE IF answer = "404" THEN CopyOf404 ELSE Null
         IN  /\ answer = "created" => from \in 1..remote.latest
             /\ requests' = Append(requests, req)
             /\ remote' = IF answer = "created"
                          THEN [remote EXCEPT
                                  !.latest = @ + 1,
                                  !.rules = [v \in 1..(remote.latest + 1) |->
                                               IF v <= remote.latest THEN remote.rules[v]
                                               ELSE remote.rules[from]]]
                          ELSE remote
             /\ call' = [call EXCEPT ![c].newVersionId = newVersionId]
             /\ result' = [result EXCEPT ![c] =
                             IF answer \in {"created", "404"}
                             THEN [state |-> "resolved", value |-> ""]
                             ELSE [state |-> "rejected",
                                   value |-> IF answer = "nolink" THEN "cannot find version"
                                             ELSE "response"]]
      /\ pc' = [pc EXCEPT ![c] = "settled"]
      /\ UNCHANGED <<cache, property, calls>>
      /\ MergeUnchanged

RaceNext == RaceBegin \/ RaceAnswer

\* the engine with two callers of createNewPropertyVersion
RaceSpec == RaceInit /\ [][RaceNext]_vars

(***************************************************************************)
(* Claims about two calls on one cached object.                            *)
(***************************************************************************)
BothSettled == \A c \in Callers : pc[c] = "settled"

\* C39: whatever the interleaving of the two calls, once both have
\* settled the latestVersion of the cached object is the highest version
\* the service has.
C39_AnyInterleavingConsistent ==
    BothSettled => property.latestVersion = Num(remote.latest)

(***************************************************************************)
(* Claims about the by-name table.                                         *)
(***************************************************************************)
OnlyAllowed(k) == \A i \in DOMAIN k : k[i] \in AllowedCharacters

\* C40: every key of the by-name table has only characters of
\* [A-Za-z0-9._-], and the property object under it is also the one the
\* by-id table holds under its propertyId.
C40_ByNameIndex ==
    \A k \in DOMAIN cache.byName :
       /\ OnlyAllowed(k)
       /\ cache.byName[k].propertyId \in DOMAIN cache.byId
       /\ cache.byId[cache.byName[k].propertyId] = cache.byName[k]

====
